---- MODULE Spec2Model ----
(***************************************************************************)
(* A model of @motioneffector/parser: the tokenizer, the vocabulary store  *)
(* and matcher, the noun-phrase resolver, the command dispatcher and the   *)
(* pronoun tracker.                                                        *)
(*                                                                         *)
(* The repository carries the parser twice: the TypeScript source          *)
(* src/src/parser.ts and the bundle src/dist/index.js.  The two differ     *)
(* (vocabulary copying, the input length ceiling, the guard around the     *)
(* resolver call), so both are modelled; the variable `build` says which   *)
(* one a behaviour runs.  Definitions named dist_* model the bundle, the   *)
(* others the TypeScript source (the tokenizer is the same code in both).  *)
(*                                                                         *)
(* Strings are JavaScript strings; positions and indices are 0-based as in *)
(* the code.  An input is a record [text, pad]: the characters of text     *)
(* followed by pad space characters, so that inputs of a million           *)
(* characters can be written down.                                         *)
(***************************************************************************)
EXTENDS Integers, Sequences, FiniteSets, TLC

VARIABLES
    build,      \* "src" (src/src/parser.ts) or "dist" (src/dist/index.js)
    heap,       \* the mutable arrays: array identity -> its elements
    parsers,    \* parser instance -> its closure state, Null before createParser
    last,       \* the last call made and what it returned or threw
    referred    \* history: subject of the latest Command since the referent was last cleared

vars == <<build, heap, parsers, last, referred>>

\* JavaScript null / an absent value, comparable with every record.
Null == [null |-> TRUE]

-----------------------------------------------------------------------------
(* Strings *)

Min(a, b) == IF a < b THEN a ELSE b

\* s[i], or "" (undefined) past the end
CharAt(s, i) == IF i >= 0 /\ i < Len(s) THEN SubSeq(s, i + 1, i + 1) ELSE ""

\* s.slice(a, b) for 0 <= a
slice(s, a, b) == SubSeq(s, a + 1, Min(b, Len(s)))

\* synonym.startsWith(word)
startsWith(s, w) == Len(w) <= Len(s) /\ SubSeq(s, 1, Len(w)) = w

\* array.includes(x)
includes(arr, x) == \E i \in 1..Len(arr) : arr[i] = x

UpperToLower == [A |-> "a", B |-> "b", C |-> "c", D |-> "d", E |-> "e", F |-> "f",
                 G |-> "g", H |-> "h", I |-> "i", J |-> "j", K |-> "k", L |-> "l",
                 M |-> "m", N |-> "n", O |-> "o", P |-> "p", Q |-> "q", R |-> "r",
                 S |-> "s", T |-> "t", U |-> "u", V |-> "v", W |-> "w", X |-> "x",
                 Y |-> "y", Z |-> "z"]

RECURSIVE toLowerCase(_)
toLowerCase(s) ==
    IF s = "" THEN ""
    ELSE LET c == SubSeq(s, 1, 1)
         IN  (IF c \in DOMAIN UpperToLower THEN UpperToLower[c] ELSE c)
                 \o toLowerCase(Tail(s))

\* U+00A0, the no-break space: a character of /\s/ and of \u0080-\uFFFF
NBSP == " "

\* /\s/: the ASCII white space and, for the rest of the Unicode class, U+00A0
Whitespace == {" ", "\t", "\n", "\r", "\f", NBSP}

RECURSIVE trimStart(_)
trimStart(s) ==
    IF s # "" /\ SubSeq(s, 1, 1) \in Whitespace THEN trimStart(Tail(s)) ELSE s

RECURSIVE trimEnd(_)
trimEnd(s) ==
    IF s # "" /\ SubSeq(s, Len(s), Len(s)) \in Whitespace
    THEN trimEnd(SubSeq(s, 1, Len(s) - 1)) ELSE s

\* String.prototype.trim
trim(s) == trimEnd(trimStart(s))

\* /[a-zA-Z0-9_\u0080-\uFFFF]/: its ASCII part and, of \u0080-\uFFFF, U+00A0
WordChars ==
    {"a","b","c","d","e","f","g","h","i","j","k","l","m",
     "n","o","p","q","r","s","t","u","v","w","x","y","z"}
    \cup DOMAIN UpperToLower
    \cup {"0","1","2","3","4","5","6","7","8","9","_"}
    \cup {NBSP}

\* /[.,!?;:]/
Punctuation == {".", ",", "!", "?", ";", ":"}

\* input.length and input[i] of an input [text, pad]
InputLength(input) == Len(input.text) + input.pad
InputChar(input, i) ==
    IF i < Len(input.text) THEN CharAt(input.text, i)
    ELSE IF i < InputLength(input) THEN " " ELSE ""


-----------------------------------------------------------------------------
(* Inputs *)

\* O of src/dist/index.js, the input length ceiling
dist_O == 1000000

\* the input with these characters, and the one padded with spaces to length n
Text(text)      == [text |-> text, pad |-> 0]
Padded(text, n) == [text |-> text, pad |-> n - Len(text)]

\* Inputs of the specification of the dispatcher and the noun phrases:
\* inputs of every shape, among them texts padded to the length ceiling and
\* to one character more.
Texts ==
    { "", "  ", "look", "n", "xyzzy", "it",
      "go", "go n", "go lamp", "say", "say Hi, there!",
      "get", "get lamp", "Get the key.", "get red ball", "get ball", "get ghost",
      "get boom", "get void", "get text", "get gap", "get it", "get the it",
      "get lamp with key", "get lamp with", "get key with it", "get it with lamp",
      "get it with ghost", "get lamp with ball", "get lamp with boom", "get lamp key",
      "put", "put lamp", "put it", "put key in lamp", "put key in it", "put it in lamp",
      "put lamp key", "put lamp in", "put key in ghost", "put ball in lamp",
      "put lamp in ball", "put boom in it", "put lamp in void", "put lamp in gap",
      "put in", "get the blue ball", "get the ghost", "get old ghost",
      "put lamp in the ghost", "get lamp with the it",
      "put it lamp", "put lamp n", "put lamp in n", "put lamp in the",
      "get \"\"", "get key n", "get old red ball", "look lamp", "  Look ",
      "put ghost in lamp" }

Inputs ==
    {Text(t) : t \in Texts}
    \cup {Padded(t, n) : t \in {"look", "get lamp", "xyzzy"},
                         n \in {dist_O, dist_O + 1}}

\* Inputs of the specification of the pronoun tracker.
PronounInputs ==
    {Text(t) : t \in { "", "look", "xyzzy", "get lamp", "get key", "get ghost",
                       "get it", "put it", "put key in it", "put key in lamp",
                       "get lamp with ghost" }}
    \cup {Padded("get it", dist_O + 1)}

\* Inputs of the specification of the vocabulary store: probes for the
\* words a parser knows.
ProbeInputs == {Text(t) : t \in {"cast", "portal", "zap", "look"}}

\* Inputs of the specification of the matcher: first words that are exact
\* synonyms, prefixes of synonyms, direction aliases, or unknown, alone and
\* with a word after them.
MatcherInputs ==
    {Text(t) : t \in {"xyzzy", "ex", "exa", "exam", "get", "fet", "fetch",
                      "fetch lamp", "nod", "n", "n lamp", "look", "look lamp",
                      "loo", "looko", "lookout", "in lamp"}}

-----------------------------------------------------------------------------
(* Tokenizer: src/src/tokenizer.ts (function H of the bundle is the same code) *)

RECURSIVE Spaces(_)
Spaces(n) == IF n = 0 THEN "" ELSE " " \o Spaces(n - 1)

\* input.slice(a): the text from a on, followed by the padding
sliceFrom(input, a) ==
    IF a >= Len(input.text) THEN Spaces(InputLength(input) - Min(a, InputLength(input)))
    ELSE SubSeq(input.text, a + 1, Len(input.text)) \o Spaces(input.pad)

\* the inner loop of a quoted string: [value, position, foundClosing]
RECURSIVE quotedLoop(_, _, _, _)
quotedLoop(input, quoteChar, position, value) ==
    IF ~(position < InputLength(input))
    THEN [value |-> value, position |-> position, foundClosing |-> FALSE]
    ELSE LET current == InputChar(input, position)
             next    == InputChar(input, position + 1)
         IN  IF current = "\\" /\ position + 1 < InputLength(input)
                /\ (next = quoteChar \/ next = "\\")
             THEN quotedLoop(input, quoteChar, position + 2, value \o next)
             ELSE IF current = quoteChar
             THEN [value |-> value, position |-> position + 1, foundClosing |-> TRUE]
             ELSE quotedLoop(input, quoteChar, position + 1, value \o current)

\* the loop collecting word characters: [value, position]
RECURSIVE wordLoop(_, _, _)
wordLoop(input, position, value) ==
    IF position < InputLength(input) /\ InputChar(input, position) \in WordChars
    THEN wordLoop(input, position + 1, value \o InputChar(input, position))
    ELSE [value |-> value, position |-> position]

\* "Strip trailing punctuation": [strippedValue, position]
RECURSIVE stripLoop(_, _)
stripLoop(strippedValue, position) ==
    IF Len(strippedValue) > 0
       /\ SubSeq(strippedValue, Len(strippedValue), Len(strippedValue)) \in Punctuation
    THEN stripLoop(SubSeq(strippedValue, 1, Len(strippedValue) - 1), position - 1)
    ELSE [strippedValue |-> strippedValue, position |-> position]

\* "Skip any trailing punctuation": the position after it
RECURSIVE skipPunctuation(_, _)
skipPunctuation(input, position) ==
    IF position < InputLength(input) /\ InputChar(input, position) \in Punctuation
    THEN skipPunctuation(input, position + 1)
    ELSE position

\* a WORD token whose end is the position after the character that follows
\* the word
wordToken_endPastWord(input, start, w, st) ==
    [type     |-> "WORD",
     value    |-> toLowerCase(st.strippedValue),
     original |-> slice(input.text, start, start + Len(w.value)),
     start    |-> start,
     end      |-> start + Len(w.value) + 1]

\* tokenizer.ts 118-125: the WORD token pushed for the characters w.value
\* collected from start on, st.strippedValue without trailing punctuation
wordToken(input, start, w, st) ==
    [type     |-> "WORD",
     value    |-> toLowerCase(st.strippedValue),
     original |-> slice(input.text, start, start + Len(w.value)),
     start    |-> start,
     end      |-> start + Len(w.value)]

RECURSIVE tokenizeLoop(_, _, _)
tokenizeLoop(input, position, tokens) ==
    \* from the end of the text on every character is padding whitespace,
    \* which the loop skips one by one without emitting anything
    IF ~(position < Len(input.text)) THEN tokens
    ELSE LET char == InputChar(input, position)
         IN  IF char \in Whitespace
             THEN tokenizeLoop(input, position + 1, tokens)
             ELSE IF char = "\"" \/ char = "'"
             THEN LET start == position
                      q     == quotedLoop(input, char, position + 1, "")
                      value == IF q.foundClosing THEN q.value
                               ELSE sliceFrom(input, start + 1)
                      pos   == IF q.foundClosing THEN q.position
                               ELSE InputLength(input)
                  IN  tokenizeLoop(input, pos,
                          Append(tokens, [type     |-> "QUOTED_STRING",
                                          value    |-> value,
                                          original |-> slice(input.text, start, pos)
                                                         \o Spaces(pos - Min(pos, Len(input.text))),
                                          start    |-> start,
                                          end      |-> pos]))
             ELSE IF char \in WordChars
             THEN LET start == position
                      w     == wordLoop(input, position, "")
                      st    == stripLoop(w.value, w.position)
                      pos   == skipPunctuation(input, st.position)
                  IN  tokenizeLoop(input, pos,
                          Append(tokens, wordToken(input, start, w, st)))
             ELSE tokenizeLoop(input, position + 1, tokens)

\* The token lists of the specifications' inputs, computed once.
TokenizedInputs ==
    [input \in Inputs \cup PronounInputs \cup ProbeInputs \cup MatcherInputs |->
        tokenizeLoop(input, 0, <<>>)]

tokenize(input) ==
    IF input \in DOMAIN TokenizedInputs THEN TokenizedInputs[input]
    ELSE tokenizeLoop(input, 0, <<>>)

\* tokens[i], 0-based, Null (undefined) past the end
At(tokens, i) == IF i >= 0 /\ i < Len(tokens) THEN tokens[i + 1] ELSE Null

-----------------------------------------------------------------------------
(* Vocabulary store *)

\* src/src/default-vocabulary.ts; the bundle's constant k holds the same data
DEFAULT_VOCABULARY ==
    [verbs |-> <<
        [canonical |-> "GO", synonyms |-> <<"go", "walk", "run">>, pattern |-> "direction"],
        [canonical |-> "ENTER", synonyms |-> <<"enter">>, pattern |-> "subject"],
        [canonical |-> "EXIT", synonyms |-> <<"exit", "leave">>, pattern |-> "none"],
        [canonical |-> "CLIMB", synonyms |-> <<"climb">>, pattern |-> "subject"],
        [canonical |-> "GET", synonyms |-> <<"get", "take", "grab", "pick">>, pattern |-> "subject"],
        [canonical |-> "DROP", synonyms |-> <<"drop">>, pattern |-> "subject"],
        [canonical |-> "PUT", synonyms |-> <<"put">>, pattern |-> "subject_object"],
        [canonical |-> "GIVE", synonyms |-> <<"give">>, pattern |-> "subject_object"],
        [canonical |-> "THROW", synonyms |-> <<"throw">>, pattern |-> "subject_object"],
        [canonical |-> "OPEN", synonyms |-> <<"open">>, pattern |-> "subject"],
        [canonical |-> "CLOSE", synonyms |-> <<"close">>, pattern |-> "subject"],
        [canonical |-> "LOCK", synonyms |-> <<"lock">>, pattern |-> "subject"],
        [canonical |-> "UNLOCK", synonyms |-> <<"unlock">>, pattern |-> "subject"],
        [canonical |-> "LOOK", synonyms |-> <<"look", "l">>, pattern |-> "none"],
        [canonical |-> "EXAMINE", synonyms |-> <<"examine", "x", "inspect">>, pattern |-> "subject"],
        [canonical |-> "SEARCH", synonyms |-> <<"search">>, pattern |-> "subject"],
        [canonical |-> "READ", synonyms |-> <<"read">>, pattern |-> "subject"],
        [canonical |-> "SAY", synonyms |-> <<"say">>, pattern |-> "text"],
        [canonical |-> "SHOUT", synonyms |-> <<"shout">>, pattern |-> "text"],
        [canonical |-> "TALK", synonyms |-> <<"talk">>, pattern |-> "subject"],
        [canonical |-> "ASK", synonyms |-> <<"ask">>, pattern |-> "subject_object"],
        [canonical |-> "TELL", synonyms |-> <<"tell">>, pattern |-> "subject_object"],
        [canonical |-> "ATTACK", synonyms |-> <<"attack", "hit", "strike">>, pattern |-> "subject"],
        [canonical |-> "KILL", synonyms |-> <<"kill">>, pattern |-> "subject"],
        [canonical |-> "FIGHT", synonyms |-> <<"fight">>, pattern |-> "subject"],
        [canonical |-> "INVENTORY", synonyms |-> <<"inventory", "i", "inv">>, pattern |-> "none"],
        [canonical |-> "SCORE", synonyms |-> <<"score">>, pattern |-> "none"],
        [canonical |-> "SAVE", synonyms |-> <<"save">>, pattern |-> "none"],
        [canonical |-> "LOAD", synonyms |-> <<"load">>, pattern |-> "none"],
        [canonical |-> "QUIT", synonyms |-> <<"quit">>, pattern |-> "none"],
        [canonical |-> "HELP", synonyms |-> <<"help">>, pattern |-> "none"] >>,
     directions |-> <<
        [canonical |-> "NORTH", aliases |-> <<"north", "n">>],
        [canonical |-> "SOUTH", aliases |-> <<"south", "s">>],
        [canonical |-> "EAST", aliases |-> <<"east", "e">>],
        [canonical |-> "WEST", aliases |-> <<"west", "w">>],
        [canonical |-> "NORTHEAST", aliases |-> <<"northeast", "ne">>],
        [canonical |-> "NORTHWEST", aliases |-> <<"northwest", "nw">>],
        [canonical |-> "SOUTHEAST", aliases |-> <<"southeast", "se">>],
        [canonical |-> "SOUTHWEST", aliases |-> <<"southwest", "sw">>],
        [canonical |-> "UP", aliases |-> <<"up", "u">>],
        [canonical |-> "DOWN", aliases |-> <<"down", "d">>],
        [canonical |-> "IN", aliases |-> <<"in">>],
        [canonical |-> "OUT", aliases |-> <<"out">>] >>,
     prepositions |-> <<"with", "to", "at", "in", "on", "from", "into", "onto", "about">>,
     articles |-> <<"the", "a", "an">>]

\* The arrays that calls can reach and change, by identity: those of
\* DEFAULT_VOCABULARY, those of the caller's vocabulary options objects, and
\* the ones a createParser call allocates.
Array(kind, owner, n) == [array |-> kind, owner |-> <<owner, n>>]
DefaultVerbs          == Array("verbs", "DEFAULT_VOCABULARY", 0)
DefaultDirections     == Array("directions", "DEFAULT_VOCABULARY", 0)
OptionVerbs(o)        == Array("verbs", o, 0)
OptionDirections(o)   == Array("directions", o, 0)
OwnVerbs(p)           == Array("verbs", "parser", p)
OwnDirections(p)      == Array("directions", "parser", p)

\* the vocabulary (by value) a parser's closure variable `vocabulary` denotes
vocabularyOf(h, ps, p) ==
    [verbs        |-> h[ps[p].verbs],
     directions   |-> h[ps[p].directions],
     prepositions |-> ps[p].prepositions,
     articles     |-> ps[p].articles]

-----------------------------------------------------------------------------
(* Vocabulary matcher: the closures of createParser, src/src/parser.ts *)

\* where a for...of loop with a return stops: the first of the indices
\* whose element passes its test, 0 if there is none
FirstIndex(indices) ==
    IF indices = {} THEN 0
    ELSE CHOOSE i \in indices : \A j \in indices : i <= j

\* a findVerb with one pass: the first verb that matches exactly or by prefix
findVerb_onePass(vocabulary, partialMatch, minPartialLength, word) ==
    LET Exact(verb)   == includes(verb.synonyms, word)
        Partial(verb) == \E k \in 1..Len(verb.synonyms) :
                             startsWith(verb.synonyms[k], word)
        q == FirstIndex({i \in 1..Len(vocabulary.verbs) :
                            \/ Exact(vocabulary.verbs[i])
                            \/ /\ partialMatch
                               /\ Len(word) >= minPartialLength
                               /\ Partial(vocabulary.verbs[i])})
    IN  IF q # 0 THEN vocabulary.verbs[q] ELSE Null

findVerb(vocabulary, partialMatch, minPartialLength, word) ==
    LET Exact(verb)   == includes(verb.synonyms, word)
        Partial(verb) == \E k \in 1..Len(verb.synonyms) :
                             startsWith(verb.synonyms[k], word)
        e == FirstIndex({i \in 1..Len(vocabulary.verbs) : Exact(vocabulary.verbs[i])})
        q == FirstIndex({i \in 1..Len(vocabulary.verbs) : Partial(vocabulary.verbs[i])})
    IN  IF e # 0 THEN vocabulary.verbs[e]
        ELSE IF partialMatch /\ Len(word) >= minPartialLength /\ q # 0
        THEN vocabulary.verbs[q]
        ELSE Null

\* findDirection's null.  Its callers only test the result for truthiness,
\* which an empty canonical name fails as null does.
NoDirection == ""

findDirection(vocabulary, word) ==
    LET Has(dir) == includes(dir.aliases, word)
        d == FirstIndex({i \in 1..Len(vocabulary.directions) :
                            Has(vocabulary.directions[i])})
    IN  IF d # 0 THEN vocabulary.directions[d].canonical ELSE NoDirection

isArticle(vocabulary, word) == includes(vocabulary.articles, word)

isPreposition(vocabulary, word) == includes(vocabulary.prepositions, word)

-----------------------------------------------------------------------------
(* The caller's side: scopes, parse options and the resolver *)

\* A JavaScript object: the set of its <<key, value>> properties.
Object(props)     == [props |-> props]
EmptyObject       == Object({})
HasKey(obj, key)  == \E kv \in obj.props : kv[1] = key
\* obj[key], "undefined" when the property is absent
Get(obj, key) ==
    IF HasKey(obj, key) THEN (CHOOSE kv \in obj.props : kv[1] = key)[2]
    ELSE "undefined"

\* parseOptions?.scope: the scope of a call's options, Null when there is none
ScopeOf(parseOptions) == IF parseOptions = Null THEN Null ELSE parseOptions.scope

\* What a resolver call can do: throw, return null, return a string, or
\* return an array whose elements are entities or null.
Throws            == [kind |-> "throws"]
ReturnsNull       == [kind |-> "null"]
ReturnsString(cs) == [kind |-> "string", items |-> cs]
ReturnsArray(es)  == [kind |-> "array", items |-> es]

\* The resolver the parsers are created with (options.resolver): a pure
\* function of its arguments that shows each kind of outcome.
resolver(noun, adjectives, scope) ==
    CASE noun = "lamp" -> ReturnsArray(<<[id |-> "lamp-1"]>>)
      [] noun = "key"  -> ReturnsArray(<<[id |-> "key-1"]>>)
      [] noun = "ball" -> IF adjectives = <<"red">>
                          THEN ReturnsArray(<<[id |-> "ball-red"]>>)
                          ELSE ReturnsArray(<<[id |-> "ball-red"], [id |-> "ball-blue"]>>)
      [] noun = "boom" -> Throws
      [] noun = "void" -> ReturnsNull
      [] noun = "text" -> ReturnsString(<<[char |-> "x"], [char |-> "y"]>>)
      [] noun = "gap"  -> ReturnsArray(<<Null>>)
      [] OTHER         -> ReturnsArray(<<>>)

-----------------------------------------------------------------------------
(* Noun-phrase resolver: parseEntity, src/src/parser.ts *)

\* "Skip articles": the index after them
RECURSIVE skipArticles(_, _, _)
skipArticles(vocabulary, tokens, index) ==
    IF index < Len(tokens) /\ isArticle(vocabulary, At(tokens, index).value)
    THEN skipArticles(vocabulary, tokens, index + 1)
    ELSE index

\* "Collect words until we hit a preposition or end": [index, words]
RECURSIVE collectWords(_, _, _, _)
collectWords(vocabulary, tokens, index, words) ==
    IF index < Len(tokens)
       /\ ~isPreposition(vocabulary, At(tokens, index).value)
       /\ findDirection(vocabulary, At(tokens, index).value) = NoDirection
    THEN collectWords(vocabulary, tokens, index + 1,
                      IF ~isArticle(vocabulary, At(tokens, index).value)
                      THEN Append(words, At(tokens, index).value) ELSE words)
    ELSE [index |-> index, words |-> words]

RECURSIVE join(_, _)
join(words, sep) ==
    IF Len(words) = 0 THEN ""
    ELSE IF Len(words) = 1 THEN words[1]
    ELSE words[1] \o sep \o join(Tail(words), sep)

\* What a noun phrase did, for the record of the call: it read the referent,
\* or it called the resolver with these arguments.
ReadReferent(token)                   == [kind |-> "it", position |-> token.start]
CalledResolver(noun, adjectives, scope) ==
    [kind |-> "resolver", noun |-> noun, adjectives |-> adjectives, scope |-> scope]

\* what parseEntity hands back: its return value, or the exception that
\* leaves it (thrown), and what the phrase did (calls)
Returned(entity, consumed, error, calls) ==
    [entity |-> entity, consumed |-> consumed, error |-> error,
     thrown |-> Null, calls |-> calls]
Raised(name, calls) ==
    [entity |-> Null, consumed |-> 0, error |-> Null,
     thrown |-> [name |-> name], calls |-> calls]

NoReferentMessage == "Cannot use \"it\" without a previous referent"

ParseErrorResult(message, position) ==
    [type |-> "parse_error", message |-> message, position |-> position]

\* a parseEntity that takes the first of two entities and is ambiguous from
\* three on
parseEntityResolved_firstOfTwo(tokens, startIndex, index, words, calls, entities) ==
    LET noun       == words[Len(words)]
        adjectives == SubSeq(words, 1, Len(words) - 1)
    IN  IF entities.kind = "throws" THEN Raised("Error", calls)
        ELSE IF entities.kind = "null" THEN Raised("TypeError", calls)
        ELSE IF Len(entities.items) = 0
        THEN Returned(Null, index - startIndex,
                      [type |-> "unknown_noun", noun |-> noun,
                       position |-> At(tokens, startIndex).start], calls)
        ELSE IF Len(entities.items) > 2
        THEN Returned(Null, index - startIndex,
                      [type |-> "ambiguous", candidates |-> entities.items,
                       original |-> join(words, " "), role |-> "subject"], calls)
        ELSE IF entities.items[1] = Null THEN Raised("TypeError", calls)
        ELSE Returned([id |-> IF "id" \in DOMAIN entities.items[1]
                              THEN entities.items[1].id ELSE "undefined",
                       noun |-> noun, adjectives |-> adjectives],
                      index - startIndex, Null, calls)

\* parser.ts 166-197: what parseEntity makes of the resolver's outcome
parseEntityResolved(tokens, startIndex, index, words, calls, entities) ==
    LET noun       == words[Len(words)]
        adjectives == SubSeq(words, 1, Len(words) - 1)
    IN  IF entities.kind = "throws" THEN Raised("Error", calls)
        \* null.length
        ELSE IF entities.kind = "null" THEN Raised("TypeError", calls)
        ELSE IF Len(entities.items) = 0
        THEN Returned(Null, index - startIndex,
                      [type |-> "unknown_noun", noun |-> noun,
                       position |-> At(tokens, startIndex).start], calls)
        ELSE IF Len(entities.items) > 1
        THEN Returned(Null, index - startIndex,
                      [type |-> "ambiguous", candidates |-> entities.items,
                       original |-> join(words, " "), role |-> "subject"], calls)
        \* entities[0].id of a null element
        ELSE IF entities.items[1] = Null THEN Raised("TypeError", calls)
        ELSE Returned([id |-> IF "id" \in DOMAIN entities.items[1]
                              THEN entities.items[1].id ELSE "undefined",
                       noun |-> noun, adjectives |-> adjectives],
                      index - startIndex, Null, calls)

\* a parseEntity that calls the resolver with a fresh empty scope whatever
\* the caller passed
parseEntityWords_scopeDropped(tokens, startIndex, scope, c) ==
    IF Len(c.words) = 0 THEN Returned(Null, 0, Null, <<>>)
    ELSE
    LET noun       == c.words[Len(c.words)]
        adjectives == SubSeq(c.words, 1, Len(c.words) - 1)
    IN  parseEntityResolved(tokens, startIndex, c.index, c.words,
                            <<CalledResolver(noun, adjectives, EmptyObject)>>,
                            resolver(noun, adjectives, EmptyObject))

\* parser.ts 153-164: the words collected (c = [index, words]) go to the
\* resolver, the last one as noun, the others as adjectives
parseEntityWords(tokens, startIndex, scope, c) ==
    IF Len(c.words) = 0 THEN Returned(Null, 0, Null, <<>>)
    ELSE
    LET noun       == c.words[Len(c.words)]
        adjectives == SubSeq(c.words, 1, Len(c.words) - 1)
        arg        == IF scope = Null THEN EmptyObject ELSE scope
    IN  parseEntityResolved(tokens, startIndex, c.index, c.words,
                            <<CalledResolver(noun, adjectives, arg)>>,
                            resolver(noun, adjectives, arg))

\* a parseEntity that takes "it" for the pronoun only when a referent is
\* stored
parseEntityFrom_itNeedsReferent(vocabulary, lastReferent, tokens, startIndex, scope, index) ==
    IF index < Len(tokens) /\ At(tokens, index).value = "it" /\ lastReferent # Null
    THEN Returned(lastReferent, index - startIndex + 1, Null,
                  <<ReadReferent(At(tokens, index))>>)
    ELSE parseEntityWords(tokens, startIndex, scope,
                          collectWords(vocabulary, tokens, index, <<>>))

\* parser.ts 123-151, with index after the articles: the pronoun "it", or
\* the words up to a preposition, a direction or the end
parseEntityFrom(vocabulary, lastReferent, tokens, startIndex, scope, index) ==
    IF index < Len(tokens) /\ At(tokens, index).value = "it"
    THEN IF lastReferent # Null
         THEN Returned(lastReferent, index - startIndex + 1, Null,
                       <<ReadReferent(At(tokens, index))>>)
         ELSE Returned(Null, index - startIndex + 1,
                       ParseErrorResult(NoReferentMessage, At(tokens, index).start),
                       <<ReadReferent(At(tokens, index))>>)
    ELSE parseEntityWords(tokens, startIndex, scope,
                          collectWords(vocabulary, tokens, index, <<>>))

parseEntity(vocabulary, lastReferent, tokens, startIndex, scope) ==
    parseEntityFrom(vocabulary, lastReferent, tokens, startIndex, scope,
                    skipArticles(vocabulary, tokens, startIndex))

-----------------------------------------------------------------------------
(* Command dispatcher: parse, src/src/parser.ts *)

\* what a parse call leaves behind: the value it returns (or the exception
\* it throws), the closure variables lastReferent and lastScope after it,
\* and what its noun phrases did, in order
Return(result, lastReferent, lastScope, calls) ==
    [result |-> result, thrown |-> Null,
     lastReferent |-> lastReferent, lastScope |-> lastScope, calls |-> calls]
Throw(exception, lastReferent, lastScope, calls) ==
    [result |-> Null, thrown |-> exception,
     lastReferent |-> lastReferent, lastScope |-> lastScope, calls |-> calls]

Quote(word) == "\"" \o word \o "\""

\* a dispatcher that leaves the preposition out of the Command
parseObjectEntity_noPreposition(checked, tokens, command, entity, nextIndex, calls, o) ==
    IF o.thrown # Null
    THEN Throw(o.thrown, checked.lastReferent, checked.lastScope, calls \o o.calls)
    ELSE IF o.error # Null
    THEN Return(IF o.error.type = "ambiguous"
                THEN [o.error EXCEPT !.role = "object"] ELSE o.error,
                checked.lastReferent, checked.lastScope, calls \o o.calls)
    ELSE IF o.entity = Null
    THEN Return(ParseErrorResult(
                    "Expected target after " \o Quote(At(tokens, nextIndex).value),
                    At(tokens, nextIndex + 1).start),
                checked.lastReferent, checked.lastScope, calls \o o.calls)
    ELSE Return([type |-> "command",
                 command |-> command @@ [object |-> o.entity]],
                entity, checked.lastScope, calls \o o.calls)

\* a dispatcher that returns the object phrase's error as parseEntity made it
parseObjectEntity_roleKept(checked, tokens, command, entity, nextIndex, calls, o) ==
    IF o.thrown # Null
    THEN Throw(o.thrown, checked.lastReferent, checked.lastScope, calls \o o.calls)
    ELSE IF o.error # Null
    THEN Return(o.error, checked.lastReferent, checked.lastScope, calls \o o.calls)
    ELSE IF o.entity = Null
    THEN Return(ParseErrorResult(
                    "Expected target after " \o Quote(At(tokens, nextIndex).value),
                    At(tokens, nextIndex + 1).start),
                checked.lastReferent, checked.lastScope, calls \o o.calls)
    ELSE Return([type |-> "command",
                 command |-> command @@ [preposition |-> At(tokens, nextIndex).value,
                                         object |-> o.entity]],
                entity, checked.lastScope, calls \o o.calls)

\* a dispatcher that has made the subject the referent before the object
\* phrase fails
parseObjectEntity_subjectStoredEarly(checked, tokens, command, entity, nextIndex, calls, o) ==
    IF o.thrown # Null
    THEN Throw(o.thrown, checked.lastReferent, checked.lastScope, calls \o o.calls)
    ELSE IF o.error # Null
    THEN Return(IF o.error.type = "ambiguous"
                THEN [o.error EXCEPT !.role = "object"] ELSE o.error,
                entity, checked.lastScope, calls \o o.calls)
    ELSE IF o.entity = Null
    THEN Return(ParseErrorResult(
                    "Expected target after " \o Quote(At(tokens, nextIndex).value),
                    At(tokens, nextIndex + 1).start),
                checked.lastReferent, checked.lastScope, calls \o o.calls)
    ELSE Return([type |-> "command",
                 command |-> command @@ [preposition |-> At(tokens, nextIndex).value,
                                         object |-> o.entity]],
                entity, checked.lastScope, calls \o o.calls)

\* a dispatcher that makes the object of the Command the referent
parseObjectEntity_objectIsReferent(checked, tokens, command, entity, nextIndex, calls, o) ==
    IF o.thrown # Null
    THEN Throw(o.thrown, checked.lastReferent, checked.lastScope, calls \o o.calls)
    ELSE IF o.error # Null
    THEN Return(IF o.error.type = "ambiguous"
                THEN [o.error EXCEPT !.role = "object"] ELSE o.error,
                checked.lastReferent, checked.lastScope, calls \o o.calls)
    ELSE IF o.entity = Null
    THEN Return(ParseErrorResult(
                    "Expected target after " \o Quote(At(tokens, nextIndex).value),
                    At(tokens, nextIndex + 1).start),
                checked.lastReferent, checked.lastScope, calls \o o.calls)
    ELSE Return([type |-> "command",
                 command |-> command @@ [preposition |-> At(tokens, nextIndex).value,
                                         object |-> o.entity]],
                o.entity, checked.lastScope, calls \o o.calls)

\* parser.ts 340-359 and 426-443: the object phrase o was parsed; the
\* Command with it makes the subject the referent
parseObjectEntity(checked, tokens, command, entity, nextIndex, calls, o) ==
    IF o.thrown # Null
    THEN Throw(o.thrown, checked.lastReferent, checked.lastScope, calls \o o.calls)
    ELSE IF o.error # Null
    THEN Return(IF o.error.type = "ambiguous"
                THEN [o.error EXCEPT !.role = "object"] ELSE o.error,
                checked.lastReferent, checked.lastScope, calls \o o.calls)
    ELSE IF o.entity = Null
    THEN Return(ParseErrorResult(
                    "Expected target after " \o Quote(At(tokens, nextIndex).value),
                    At(tokens, nextIndex + 1).start),
                checked.lastReferent, checked.lastScope, calls \o o.calls)
    ELSE Return([type |-> "command",
                 command |-> command @@ [preposition |-> At(tokens, nextIndex).value,
                                         object |-> o.entity]],
                entity, checked.lastScope, calls \o o.calls)

\* a dispatcher that reports a missing target one character after the
\* preposition
parseObject_afterPreposition(vocabulary, checked, tokens, scope, command, entity, nextIndex, calls) ==
    IF nextIndex + 1 >= Len(tokens)
    THEN Return(ParseErrorResult(
                    "Expected target after " \o Quote(At(tokens, nextIndex).value),
                    At(tokens, nextIndex).end + 1),
                checked.lastReferent, checked.lastScope, calls)
    ELSE parseObjectEntity(checked, tokens, command, entity, nextIndex, calls,
                           parseEntity(vocabulary, checked.lastReferent, tokens,
                                       nextIndex + 1, scope))

\* parser.ts 325-339 and 410-425: the preposition at nextIndex and the
\* object phrase after it
parseObject(vocabulary, checked, tokens, scope, command, entity, nextIndex, calls) ==
    IF nextIndex + 1 >= Len(tokens)
    THEN Return(ParseErrorResult(
                    "Expected target after " \o Quote(At(tokens, nextIndex).value),
                    At(tokens, nextIndex).end),
                checked.lastReferent, checked.lastScope, calls)
    ELSE parseObjectEntity(checked, tokens, command, entity, nextIndex, calls,
                           parseEntity(vocabulary, checked.lastReferent, tokens,
                                       nextIndex + 1, scope))

\* parser.ts 306-359: pattern subject, the subject phrase e was parsed
parseSubject(vocabulary, checked, tokens, scope, verb, command, e) ==
    IF e.thrown # Null
    THEN Throw(e.thrown, checked.lastReferent, checked.lastScope, e.calls)
    ELSE IF e.error # Null
    THEN Return(e.error, checked.lastReferent, checked.lastScope, e.calls)
    ELSE IF e.entity = Null
    THEN Return(ParseErrorResult("Expected object after " \o Quote(verb.canonical),
                                 At(tokens, 1).start),
                checked.lastReferent, checked.lastScope, e.calls)
    ELSE IF 1 + e.consumed < Len(tokens)
            /\ isPreposition(vocabulary, At(tokens, 1 + e.consumed).value)
    THEN parseObject(vocabulary, checked, tokens, scope,
                     command @@ [subject |-> e.entity], e.entity,
                     1 + e.consumed, e.calls)
    ELSE Return([type |-> "command", command |-> command @@ [subject |-> e.entity]],
                e.entity, checked.lastScope, e.calls)

\* a dispatcher that resolves the phrase after the preposition before it
\* returns the error of the subject phrase
parseSubjectObject_objectAfterError(vocabulary, checked, tokens, scope, verb, command, e) ==
    IF e.thrown = Null /\ e.error # Null /\ 2 + e.consumed < Len(tokens)
    THEN Return(e.error, checked.lastReferent, checked.lastScope,
                e.calls \o parseEntity(vocabulary, checked.lastReferent, tokens,
                                       2 + e.consumed, scope).calls)
    ELSE parseSubject(vocabulary, checked, tokens, scope, verb, command, e)

\* a dispatcher for which the preposition and the target are optional
parseSubjectObject_optionalObject(vocabulary, checked, tokens, scope, verb, command, e) ==
    parseSubject(vocabulary, checked, tokens, scope, verb, command, e)

\* parser.ts 378-443: pattern subject_object, the subject phrase e was parsed
parseSubjectObject(vocabulary, checked, tokens, scope, verb, command, e) ==
    IF e.thrown # Null
    THEN Throw(e.thrown, checked.lastReferent, checked.lastScope, e.calls)
    ELSE IF e.error # Null
    THEN Return(e.error, checked.lastReferent, checked.lastScope, e.calls)
    ELSE IF e.entity = Null
    THEN Return(ParseErrorResult("Expected object after " \o Quote(verb.canonical),
                                 At(tokens, 1).start),
                checked.lastReferent, checked.lastScope, e.calls)
    ELSE IF 1 + e.consumed >= Len(tokens)
    THEN Return(ParseErrorResult("Expected preposition and target",
                                 At(tokens, Len(tokens) - 1).end),
                checked.lastReferent, checked.lastScope, e.calls)
    ELSE IF ~isPreposition(vocabulary, At(tokens, 1 + e.consumed).value)
    THEN Return(ParseErrorResult(
                    "Expected preposition, got "
                        \o Quote(At(tokens, 1 + e.consumed).value),
                    At(tokens, 1 + e.consumed).start),
                checked.lastReferent, checked.lastScope, e.calls)
    ELSE parseObject(vocabulary, checked, tokens, scope,
                     command @@ [subject |-> e.entity], e.entity,
                     1 + e.consumed, e.calls)

\* parser.ts 237-450: the first token is no direction; verb is what findVerb
\* made of it
parseVerb(vocabulary, checked, raw, scope, tokens, verb) ==
    LET command     == [verb |-> verb.canonical, raw |-> raw]
        Ret(result) == Return(result, checked.lastReferent, checked.lastScope, <<>>)
    IN
    IF verb = Null THEN Ret([type |-> "unknown_verb", verb |-> At(tokens, 0).value])
    ELSE IF verb.pattern = "none" THEN Ret([type |-> "command", command |-> command])
    ELSE IF verb.pattern = "direction"
    THEN IF Len(tokens) < 2
         THEN Ret(ParseErrorResult("Expected direction after " \o Quote(verb.canonical),
                                   At(tokens, Len(tokens) - 1).end))
         ELSE LET dir == findDirection(vocabulary, At(tokens, 1).value)
              IN  IF dir = NoDirection
                  THEN Ret(ParseErrorResult(
                               "Expected direction, got " \o Quote(At(tokens, 1).value),
                               At(tokens, 1).start))
                  ELSE Ret([type |-> "command",
                            command |-> command @@ [direction |-> dir]])
    ELSE IF verb.pattern = "text"
    THEN IF Len(tokens) < 2
         THEN Ret(ParseErrorResult("Expected text after " \o Quote(verb.canonical),
                                   At(tokens, Len(tokens) - 1).end))
         ELSE Ret([type |-> "command",
                   command |-> command
                               @@ [text |-> trim(sliceFrom(raw, At(tokens, 1).start))]])
    ELSE IF verb.pattern = "subject"
    THEN IF Len(tokens) < 2
         THEN Ret(ParseErrorResult("Expected object after " \o Quote(verb.canonical),
                                   At(tokens, Len(tokens) - 1).end))
         ELSE parseSubject(vocabulary, checked, tokens, scope, verb, command,
                           parseEntity(vocabulary, checked.lastReferent, tokens, 1, scope))
    ELSE IF verb.pattern = "subject_object"
    THEN IF Len(tokens) < 2
         THEN Ret(ParseErrorResult("Expected object after " \o Quote(verb.canonical),
                                   At(tokens, Len(tokens) - 1).end))
         ELSE parseSubjectObject(vocabulary, checked, tokens, scope, verb, command,
                                 parseEntity(vocabulary, checked.lastReferent, tokens,
                                             1, scope))
    ELSE Ret(ParseErrorResult("Unrecognized command pattern", 0))

\* a dispatcher that looks the first token up among the verbs first
parseTokens_verbsFirst(vocabulary, partialMatch, minPartialLength, checked, raw, scope, tokens) ==
    IF Len(tokens) = 0
    THEN Return(ParseErrorResult("Empty input", 0),
                checked.lastReferent, checked.lastScope, <<>>)
    ELSE IF findVerb(vocabulary, partialMatch, minPartialLength,
                     At(tokens, 0).value) = Null
            /\ findDirection(vocabulary, At(tokens, 0).value) # NoDirection
    THEN Return([type |-> "command",
                 command |-> [verb |-> "GO",
                              direction |-> findDirection(vocabulary,
                                                          At(tokens, 0).value),
                              raw |-> raw]],
                checked.lastReferent, checked.lastScope, <<>>)
    ELSE parseVerb(vocabulary, checked, raw, scope, tokens,
                   findVerb(vocabulary, partialMatch, minPartialLength,
                            At(tokens, 0).value))

\* parser.ts 216-236: the tokens of the input; checked is lastReferent and
\* lastScope as the room check left them
parseTokens(vocabulary, partialMatch, minPartialLength, checked, raw, scope, tokens) ==
    IF Len(tokens) = 0
    THEN Return(ParseErrorResult("Empty input", 0),
                checked.lastReferent, checked.lastScope, <<>>)
    ELSE IF findDirection(vocabulary, At(tokens, 0).value) # NoDirection
    THEN Return([type |-> "command",
                 command |-> [verb |-> "GO",
                              direction |-> findDirection(vocabulary,
                                                          At(tokens, 0).value),
                              raw |-> raw]],
                checked.lastReferent, checked.lastScope, <<>>)
    ELSE parseVerb(vocabulary, checked, raw, scope, tokens,
                   findVerb(vocabulary, partialMatch, minPartialLength,
                            At(tokens, 0).value))

\* a room check that stores the new room but keeps the referent
roomCheck_keepsReferent(scope, lastReferent, lastScope) ==
    IF scope # Null /\ Get(scope, "room") # lastScope
    THEN [lastReferent |-> lastReferent, lastScope |-> Get(scope, "room")]
    ELSE [lastReferent |-> lastReferent, lastScope |-> lastScope]

\* "Check for scope change (room change) to clear pronoun" (parser.ts 207-211,
\* index.js 284): lastReferent and lastScope after the check
roomCheck(scope, lastReferent, lastScope) ==
    IF scope # Null /\ Get(scope, "room") # lastScope
    THEN [lastReferent |-> Null, lastScope |-> Get(scope, "room")]
    ELSE [lastReferent |-> lastReferent, lastScope |-> lastScope]

\* a parse that hands the dispatcher the input trimmed and in lower case
parse_rawNormalized(vocabulary, partialMatch, minPartialLength, lastReferent, lastScope, input, parseOptions) ==
    parseTokens(vocabulary, partialMatch, minPartialLength,
                roomCheck(ScopeOf(parseOptions), lastReferent, lastScope),
                Text(toLowerCase(trim(input.text))),
                ScopeOf(parseOptions), tokenize(input))
    @@ [options |-> parseOptions]

\* parse(input, parseOptions) in the closure state lastReferent, lastScope.
\* parseOptions is only read (parseOptions?.scope at 204, scope.room at 208,
\* scope ?? {} at 159): options is the caller's object as the call leaves it
parse(vocabulary, partialMatch, minPartialLength, lastReferent, lastScope, input, parseOptions) ==
    parseTokens(vocabulary, partialMatch, minPartialLength,
                roomCheck(ScopeOf(parseOptions), lastReferent, lastScope),
                input, ScopeOf(parseOptions), tokenize(input))
    @@ [options |-> parseOptions]

-----------------------------------------------------------------------------
(* The bundle, src/dist/index.js: S (parseEntity) and $ (parse) *)

\* r ? r.start : 0 and r ? r.end : 0
StartOr0(token) == IF token # Null THEN token.start ELSE 0
EndOr0(token)   == IF token # Null THEN token.end ELSE 0

\* index.js 219-275: what S makes of the resolver's outcome
dist_SResolved(tokens, startIndex, index, words, calls, entities) ==
    LET noun       == words[Len(words)]
        adjectives == SubSeq(words, 1, Len(words) - 1)
        unknown    == Returned(Null, index - startIndex,
                               [type |-> "unknown_noun", noun |-> noun,
                                position |-> StartOr0(At(tokens, startIndex))],
                               calls)
    IN  \* try ... catch
        IF entities.kind = "throws" THEN unknown
        \* !Array.isArray(c)
        ELSE IF entities.kind # "array" THEN unknown
        ELSE IF Len(entities.items) = 0 THEN unknown
        ELSE IF Len(entities.items) > 1
        THEN Returned(Null, index - startIndex,
                      [type |-> "ambiguous", candidates |-> entities.items,
                       original |-> join(words, " "), role |-> "subject"], calls)
        \* j ? {...} : { entity: null, consumed: 0 }
        ELSE IF entities.items[1] = Null THEN Returned(Null, 0, Null, calls)
        ELSE Returned([id |-> IF "id" \in DOMAIN entities.items[1]
                              THEN entities.items[1].id ELSE "undefined",
                       noun |-> noun, adjectives |-> adjectives],
                      index - startIndex, Null, calls)

\* index.js 213-221: the words collected go to the resolver
dist_SWords(tokens, startIndex, scope, c) ==
    IF Len(c.words) = 0 THEN Returned(Null, 0, Null, <<>>)
    \* if (!f): the noun is the empty string
    ELSE IF c.words[Len(c.words)] = "" THEN Returned(Null, 0, Null, <<>>)
    ELSE
    LET noun       == c.words[Len(c.words)]
        adjectives == SubSeq(c.words, 1, Len(c.words) - 1)
        arg        == IF scope = Null THEN EmptyObject ELSE scope
    IN  dist_SResolved(tokens, startIndex, c.index, c.words,
                       <<CalledResolver(noun, adjectives, arg)>>,
                       resolver(noun, adjectives, arg))

\* index.js 196-212, with index after the articles
dist_SFrom(vocabulary, lastReferent, tokens, startIndex, scope, index) ==
    IF At(tokens, index) # Null /\ At(tokens, index).value = "it"
    THEN IF lastReferent # Null
         THEN Returned(lastReferent, index - startIndex + 1, Null,
                       <<ReadReferent(At(tokens, index))>>)
         ELSE Returned(Null, index - startIndex + 1,
                       ParseErrorResult(NoReferentMessage, At(tokens, index).start),
                       <<ReadReferent(At(tokens, index))>>)
    ELSE dist_SWords(tokens, startIndex, scope,
                     collectWords(vocabulary, tokens, index, <<>>))

dist_S(vocabulary, lastReferent, tokens, startIndex, scope) ==
    dist_SFrom(vocabulary, lastReferent, tokens, startIndex, scope,
               skipArticles(vocabulary, tokens, startIndex))

\* index.js 393-408 and 461-473: the object phrase o was parsed
dist_parseObjectEntity(checked, tokens, command, entity, nextIndex, calls, o) ==
    IF o.error # Null
    THEN Return(IF o.error.type = "ambiguous"
                THEN [o.error EXCEPT !.role = "object"] ELSE o.error,
                checked.lastReferent, checked.lastScope, calls \o o.calls)
    ELSE IF o.entity = Null
    THEN Return(ParseErrorResult(
                    "Expected target after " \o Quote(At(tokens, nextIndex).value),
                    StartOr0(At(tokens, nextIndex + 1))),
                checked.lastReferent, checked.lastScope, calls \o o.calls)
    ELSE Return([type |-> "command",
                 command |-> command @@ [preposition |-> At(tokens, nextIndex).value,
                                         object |-> o.entity]],
                entity, checked.lastScope, calls \o o.calls)

\* index.js 383-392 and 451-460: the preposition at nextIndex and the
\* object phrase after it
dist_parseObject(vocabulary, checked, tokens, scope, command, entity, nextIndex, calls) ==
    IF nextIndex + 1 >= Len(tokens)
    THEN Return(ParseErrorResult(
                    "Expected target after " \o Quote(At(tokens, nextIndex).value),
                    At(tokens, nextIndex).end),
                checked.lastReferent, checked.lastScope, calls)
    ELSE dist_parseObjectEntity(checked, tokens, command, entity, nextIndex, calls,
                                dist_S(vocabulary, checked.lastReferent, tokens,
                                       nextIndex + 1, scope))

\* index.js 370-408: pattern subject, the subject phrase e was parsed
dist_parseSubject(vocabulary, checked, tokens, scope, verb, command, e) ==
    IF e.error # Null
    THEN Return(e.error, checked.lastReferent, checked.lastScope, e.calls)
    ELSE IF e.entity = Null
    THEN Return(ParseErrorResult("Expected object after " \o Quote(verb.canonical),
                                 StartOr0(At(tokens, 1))),
                checked.lastReferent, checked.lastScope, e.calls)
    ELSE IF 1 + e.consumed < Len(tokens)
            /\ At(tokens, 1 + e.consumed) # Null
            /\ isPreposition(vocabulary, At(tokens, 1 + e.consumed).value)
    THEN dist_parseObject(vocabulary, checked, tokens, scope,
                          command @@ [subject |-> e.entity], e.entity,
                          1 + e.consumed, e.calls)
    ELSE Return([type |-> "command", command |-> command @@ [subject |-> e.entity]],
                e.entity, checked.lastScope, e.calls)

\* index.js 424-473: every other pattern, the subject phrase e was parsed
dist_parseSubjectObject(vocabulary, checked, tokens, scope, verb, command, e) ==
    IF e.error # Null
    THEN Return(e.error, checked.lastReferent, checked.lastScope, e.calls)
    ELSE IF e.entity = Null
    THEN Return(ParseErrorResult("Expected object after " \o Quote(verb.canonical),
                                 StartOr0(At(tokens, 1))),
                checked.lastReferent, checked.lastScope, e.calls)
    ELSE IF 1 + e.consumed >= Len(tokens)
    THEN Return(ParseErrorResult("Expected preposition and target",
                                 EndOr0(At(tokens, Len(tokens) - 1))),
                checked.lastReferent, checked.lastScope, e.calls)
    ELSE IF At(tokens, 1 + e.consumed) = Null
            \/ ~isPreposition(vocabulary, At(tokens, 1 + e.consumed).value)
    THEN Return(ParseErrorResult(
                    "Expected preposition, got "
                        \o Quote(IF At(tokens, 1 + e.consumed) # Null
                                 THEN At(tokens, 1 + e.consumed).value ELSE "nothing"),
                    IF At(tokens, 1 + e.consumed) # Null
                    THEN At(tokens, 1 + e.consumed).start
                    ELSE EndOr0(At(tokens, Len(tokens) - 1))),
                checked.lastReferent, checked.lastScope, e.calls)
    ELSE dist_parseObject(vocabulary, checked, tokens, scope,
                          command @@ [subject |-> e.entity], e.entity,
                          1 + e.consumed, e.calls)

\* index.js 306-474: the first token is no direction; verb is what d
\* (findVerb) made of it
dist_parseVerb(vocabulary, checked, raw, scope, tokens, verb) ==
    LET command     == [verb |-> verb.canonical, raw |-> raw]
        Ret(result) == Return(result, checked.lastReferent, checked.lastScope, <<>>)
    IN
    IF verb = Null THEN Ret([type |-> "unknown_verb", verb |-> At(tokens, 0).value])
    ELSE IF verb.pattern = "none" THEN Ret([type |-> "command", command |-> command])
    ELSE IF verb.pattern = "direction"
    THEN IF Len(tokens) < 2
         THEN Ret(ParseErrorResult("Expected direction after " \o Quote(verb.canonical),
                                   EndOr0(At(tokens, Len(tokens) - 1))))
         ELSE LET dir == findDirection(vocabulary, At(tokens, 1).value)
              IN  IF dir = NoDirection
                  THEN Ret(ParseErrorResult(
                               "Expected direction, got " \o Quote(At(tokens, 1).value),
                               At(tokens, 1).start))
                  ELSE Ret([type |-> "command",
                            command |-> command @@ [direction |-> dir]])
    ELSE IF verb.pattern = "text"
    THEN IF Len(tokens) < 2
         THEN Ret(ParseErrorResult("Expected text after " \o Quote(verb.canonical),
                                   EndOr0(At(tokens, Len(tokens) - 1))))
         ELSE Ret([type |-> "command",
                   command |-> command
                               @@ [text |-> trim(sliceFrom(raw, At(tokens, 1).start))]])
    ELSE IF Len(tokens) < 2
    THEN Ret(ParseErrorResult("Expected object after " \o Quote(verb.canonical),
                              EndOr0(At(tokens, Len(tokens) - 1))))
    ELSE IF verb.pattern = "subject"
    THEN dist_parseSubject(vocabulary, checked, tokens, scope, verb, command,
                           dist_S(vocabulary, checked.lastReferent, tokens, 1, scope))
    \* every other pattern takes the subject_object block
    ELSE dist_parseSubjectObject(vocabulary, checked, tokens, scope, verb, command,
                                 dist_S(vocabulary, checked.lastReferent, tokens, 1, scope))

\* index.js 285-306: the tokens of the input
dist_parseTokens(vocabulary, partialMatch, minPartialLength, checked, raw, scope, tokens) ==
    IF Len(tokens) = 0
    THEN Return(ParseErrorResult("Empty input", 0),
                checked.lastReferent, checked.lastScope, <<>>)
    ELSE IF findDirection(vocabulary, At(tokens, 0).value) # NoDirection
    THEN Return([type |-> "command",
                 command |-> [verb |-> "GO",
                              direction |-> findDirection(vocabulary,
                                                          At(tokens, 0).value),
                              raw |-> raw]],
                checked.lastReferent, checked.lastScope, <<>>)
    ELSE dist_parseVerb(vocabulary, checked, raw, scope, tokens,
                        findVerb(vocabulary, partialMatch, minPartialLength,
                                 At(tokens, 0).value))

\* a parse of the bundle that makes the room check before it looks at the
\* length
dist_parse_roomCheckFirst(vocabulary, partialMatch, minPartialLength, lastReferent, lastScope, input, parseOptions) ==
    IF InputLength(input) > dist_O
    THEN Throw([name |-> "ValidationError"],
               roomCheck(ScopeOf(parseOptions), lastReferent, lastScope).lastReferent,
               roomCheck(ScopeOf(parseOptions), lastReferent, lastScope).lastScope,
               <<>>)
         @@ [options |-> parseOptions]
    ELSE dist_parseTokens(vocabulary, partialMatch, minPartialLength,
                          roomCheck(ScopeOf(parseOptions), lastReferent, lastScope),
                          input, ScopeOf(parseOptions), tokenize(input))
         @@ [options |-> parseOptions]

\* $(s, i) in the closure state m (lastReferent) and g (lastScope): the
\* length is checked before anything else
dist_parse(vocabulary, partialMatch, minPartialLength, lastReferent, lastScope, input, parseOptions) ==
    IF InputLength(input) > dist_O
    THEN Throw([name |-> "ValidationError"], lastReferent, lastScope, <<>>)
         @@ [options |-> parseOptions]
    ELSE dist_parseTokens(vocabulary, partialMatch, minPartialLength,
                          roomCheck(ScopeOf(parseOptions), lastReferent, lastScope),
                          input, ScopeOf(parseOptions), tokenize(input))
         @@ [options |-> parseOptions]

-----------------------------------------------------------------------------
(* createParser and buildVocabulary *)

\* The vocabulary options objects callers pass: one extends the defaults
\* (extend left out), one replaces them (extend: false).  Their verbs and
\* directions arrays live in the heap under OptionVerbs / OptionDirections.
ExtendOptions ==
    [name |-> "extend options", extend |-> "undefined",
     prepositions |-> <<"under">>, articles |-> <<"some">>]
ReplaceOptions ==
    [name |-> "replace options", extend |-> "false",
     prepositions |-> <<"in", "with">>, articles |-> <<"the">>]
VocabularyOptions == {ExtendOptions, ReplaceOptions}

ExtendOptionsVerbs ==
    << [canonical |-> "ZAP", synonyms |-> <<"zap">>, pattern |-> "none"] >>
ExtendOptionsDirections ==
    << [canonical |-> "WARP", aliases |-> <<"warp">>] >>
ReplaceOptionsVerbs ==
    << [canonical |-> "LOOK", synonyms |-> <<"look">>, pattern |-> "none"],
       [canonical |-> "GET", synonyms |-> <<"get">>, pattern |-> "subject"] >>
ReplaceOptionsDirections ==
    << [canonical |-> "NORTH", aliases |-> <<"n">>] >>

\* buildVocabulary of src/src/parser.ts, called for parser p: the arrays the
\* new vocabulary object refers to, and the heap after the call
buildVocabulary(h, p, vocabOptions) ==
    IF vocabOptions = Null
    \* { ...DEFAULT_VOCABULARY }: a new object holding the default's arrays
    THEN [verbs |-> DefaultVerbs, directions |-> DefaultDirections,
          prepositions |-> DEFAULT_VOCABULARY.prepositions,
          articles |-> DEFAULT_VOCABULARY.articles, heap |-> h]
    ELSE IF vocabOptions.extend = "false"
    \* verbs: vocabOptions.verbs ?? []: the caller's arrays themselves
    THEN [verbs |-> OptionVerbs(vocabOptions.name),
          directions |-> OptionDirections(vocabOptions.name),
          prepositions |-> vocabOptions.prepositions,
          articles |-> vocabOptions.articles, heap |-> h]
    ELSE [verbs |-> OwnVerbs(p), directions |-> OwnDirections(p),
          prepositions |-> DEFAULT_VOCABULARY.prepositions \o vocabOptions.prepositions,
          articles |-> DEFAULT_VOCABULARY.articles \o vocabOptions.articles,
          heap |-> (OwnVerbs(p) :> (h[DefaultVerbs] \o h[OptionVerbs(vocabOptions.name)]))
                   @@ (OwnDirections(p) :> (h[DefaultDirections]
                                              \o h[OptionDirections(vocabOptions.name)]))
                   @@ h]

\* V of src/dist/index.js: every branch spreads into new arrays
dist_V(h, p, vocabOptions) ==
    LET fresh(verbs, directions, prepositions, articles) ==
            [verbs |-> OwnVerbs(p), directions |-> OwnDirections(p),
             prepositions |-> prepositions, articles |-> articles,
             heap |-> (OwnVerbs(p) :> verbs) @@ (OwnDirections(p) :> directions) @@ h]
    IN  IF vocabOptions = Null
        THEN fresh(h[DefaultVerbs], h[DefaultDirections],
                   DEFAULT_VOCABULARY.prepositions, DEFAULT_VOCABULARY.articles)
        ELSE IF vocabOptions.extend = "false"
        THEN fresh(h[OptionVerbs(vocabOptions.name)],
                   h[OptionDirections(vocabOptions.name)],
                   vocabOptions.prepositions, vocabOptions.articles)
        ELSE fresh(h[DefaultVerbs] \o h[OptionVerbs(vocabOptions.name)],
                   h[DefaultDirections] \o h[OptionDirections(vocabOptions.name)],
                   DEFAULT_VOCABULARY.prepositions \o vocabOptions.prepositions,
                   DEFAULT_VOCABULARY.articles \o vocabOptions.articles)

-----------------------------------------------------------------------------
(* The state machine *)

\* how many parser instances a behaviour creates
NumParsers == 2
\* how many definitions addVerb / addDirection may push onto one array
MaxAdded == 1

Builds    == {"src", "dist"}
ParserIds == 1..NumParsers

\* the definitions callers add at run time
AddedVerbs ==
    { [canonical |-> "CAST", synonyms |-> <<"cast">>, pattern |-> "subject"] }
AddedDirections ==
    { [canonical |-> "PORTAL", aliases |-> <<"portal">>] }

\* definitions added to probe the matcher: an exact synonym that is a prefix
\* of a built-in synonym ("examine"), a synonym a built-in verb has ("get"),
\* a synonym that is a direction alias ("n"); an alias that is a verb
\* synonym ("look"), an alias a built-in direction has ("n")
MatcherVerbs ==
    { [canonical |-> "EXAM", synonyms |-> <<"exam">>, pattern |-> "none"],
      [canonical |-> "FETCH", synonyms |-> <<"fetch", "get">>, pattern |-> "subject"],
      [canonical |-> "NOD", synonyms |-> <<"nod", "n">>, pattern |-> "none"] }
MatcherDirections ==
    { [canonical |-> "LOOKOUT", aliases |-> <<"lookout", "look">>],
      [canonical |-> "NARROWS", aliases |-> <<"narrows", "n">>] }

Count(seq, set) == Cardinality({i \in 1..Len(seq) : seq[i] \in set})

\* The history variable referred[p] holds the subject of the latest Command
\* parser p returned, or, when no Command with a subject was returned since
\* the referent was last due to be empty, the reason for that: the parser is
\* new, clearPronoun was called, or a call named another room.  had tells
\* whether a Command with a subject had been returned before.
Cleared(reason, had) == [cleared |-> reason, had |-> had]
IsCleared(r)         == "cleared" \in DOMAIN r

TypeInit ==
    /\ build \in Builds
    /\ heap = (DefaultVerbs :> DEFAULT_VOCABULARY.verbs)
              @@ (DefaultDirections :> DEFAULT_VOCABULARY.directions)
              @@ (OptionVerbs(ExtendOptions.name) :> ExtendOptionsVerbs)
              @@ (OptionDirections(ExtendOptions.name) :> ExtendOptionsDirections)
              @@ (OptionVerbs(ReplaceOptions.name) :> ReplaceOptionsVerbs)
              @@ (OptionDirections(ReplaceOptions.name) :> ReplaceOptionsDirections)
    /\ parsers = [p \in ParserIds |-> Null]
    /\ last = [op |-> "none"]
    /\ referred = [p \in ParserIds |-> Cleared("new", FALSE)]

\* createParser(options) with a function as resolver: the state of the new
\* closure (parser.ts 47-53, index.js 160-161)
createParserWith(p, vocabOptions, partialMatch, minPartialLength) ==
    /\ parsers[p] = Null
    /\ \E v \in {IF build = "src" THEN buildVocabulary(heap, p, vocabOptions)
                 ELSE dist_V(heap, p, vocabOptions)} :
           /\ heap' = v.heap
           /\ parsers' = [parsers EXCEPT ![p] =
                            [verbs |-> v.verbs, directions |-> v.directions,
                             prepositions |-> v.prepositions, articles |-> v.articles,
                             partialMatch |-> partialMatch,
                             minPartialLength |-> minPartialLength,
                             lastReferent |-> Null, lastScope |-> "null"]]
    /\ last' = [op |-> "createParser", parser |-> p, vocabulary |-> vocabOptions]
    /\ UNCHANGED <<build, referred>>

\* options without partialMatch and minPartialLength: options.partialMatch
\* ?? true and options.minPartialLength ?? 3
createParser(p, vocabOptions) == createParserWith(p, vocabOptions, TRUE, 3)

\* vocabulary.verbs.push(definition)
addVerb(p, definition) ==
    /\ parsers[p] # Null
    /\ Count(heap[parsers[p].verbs], AddedVerbs \cup MatcherVerbs) < MaxAdded
    /\ heap' = [heap EXCEPT ![parsers[p].verbs] = Append(@, definition)]
    /\ last' = [op |-> "addVerb", parser |-> p, definition |-> definition]
    /\ UNCHANGED <<build, parsers, referred>>

\* an addDirection whose definition is not in the array when it returns
addDirection_notYetAdded(p, definition) ==
    /\ parsers[p] # Null
    /\ Count(heap[parsers[p].directions], AddedDirections \cup MatcherDirections) < MaxAdded
    /\ heap' = heap
    /\ last' = [op |-> "addDirection", parser |-> p, definition |-> definition]
    /\ UNCHANGED <<build, parsers, referred>>

\* vocabulary.directions.push(definition)
addDirection(p, definition) ==
    /\ parsers[p] # Null
    /\ Count(heap[parsers[p].directions], AddedDirections \cup MatcherDirections) < MaxAdded
    /\ heap' = [heap EXCEPT ![parsers[p].directions] = Append(@, definition)]
    /\ last' = [op |-> "addDirection", parser |-> p, definition |-> definition]
    /\ UNCHANGED <<build, parsers, referred>>

\* a clearPronoun that forgets the room instead of the referent
clearPronoun_forgetsRoom(p) ==
    /\ parsers[p] # Null
    /\ parsers' = [parsers EXCEPT ![p].lastScope = "null"]
    /\ referred' = [referred EXCEPT ![p] =
                      Cleared("clearPronoun", IF IsCleared(@) THEN @.had ELSE TRUE)]
    /\ last' = [op |-> "clearPronoun", parser |-> p,
                before |-> [lastReferent |-> parsers[p].lastReferent,
                            lastScope |-> parsers[p].lastScope]]
    /\ UNCHANGED <<build, heap>>

\* lastReferent = null
clearPronoun(p) ==
    /\ parsers[p] # Null
    /\ parsers' = [parsers EXCEPT ![p].lastReferent = Null]
    /\ referred' = [referred EXCEPT ![p] =
                      Cleared("clearPronoun", IF IsCleared(@) THEN @.had ELSE TRUE)]
    /\ last' = [op |-> "clearPronoun", parser |-> p,
                before |-> [lastReferent |-> parsers[p].lastReferent,
                            lastScope |-> parsers[p].lastScope]]
    /\ UNCHANGED <<build, heap>>

\* the scope names a room, and it is not the stored one
NamesOtherRoom(scope, lastScope) ==
    scope # Null /\ HasKey(scope, "room") /\ Get(scope, "room") # lastScope

IsCommandWithSubject(result) ==
    result # Null /\ result.type = "command" /\ "subject" \in DOMAIN result.command

\* the call was rejected for the length of its input
Rejected(thrown) == thrown # Null /\ thrown.name = "ValidationError"

\* History of a parse call: what the call just before it was, when that was
\* the same call (same parser, input and options) or an addVerb or
\* addDirection on the same parser; Null otherwise.
Previous(p, input, parseOptions) ==
    IF last.op = "parse"
    THEN IF last.parser = p /\ last.input = input /\ last.options = parseOptions
         THEN [op |-> "parse", result |-> last.result, thrown |-> last.thrown,
               calls |-> last.calls]
         ELSE Null
    ELSE IF last.op \in {"addVerb", "addDirection"}
    THEN IF last.parser = p
         THEN [op |-> last.op, definition |-> last.definition]
         ELSE Null
    ELSE Null

\* parser.parse(input, parseOptions)
Parse(p, input, parseOptions) ==
    /\ parsers[p] # Null
    /\ \E out \in {IF build = "src"
                   THEN parse(vocabularyOf(heap, parsers, p),
                              parsers[p].partialMatch, parsers[p].minPartialLength,
                              parsers[p].lastReferent, parsers[p].lastScope,
                              input, parseOptions)
                   ELSE dist_parse(vocabularyOf(heap, parsers, p),
                                   parsers[p].partialMatch, parsers[p].minPartialLength,
                                   parsers[p].lastReferent, parsers[p].lastScope,
                                   input, parseOptions)} :
           /\ parsers' = [parsers EXCEPT ![p].lastReferent = out.lastReferent,
                                         ![p].lastScope = out.lastScope]
           /\ last' = [op |-> "parse", parser |-> p, input |-> input,
                       options |-> parseOptions, result |-> out.result,
                       thrown |-> out.thrown, calls |-> out.calls,
                       optionsAfter |-> out.options,
                       previous |-> Previous(p, input, parseOptions),
                       before |-> [lastReferent |-> parsers[p].lastReferent,
                                   lastScope |-> parsers[p].lastScope,
                                   referred |-> referred[p]]]
           /\ referred' = [referred EXCEPT ![p] =
                             IF IsCommandWithSubject(out.result)
                             THEN out.result.command.subject
                             ELSE IF ~Rejected(out.thrown)
                                     /\ NamesOtherRoom(ScopeOf(parseOptions),
                                                       parsers[p].lastScope)
                             THEN Cleared("room", IF IsCleared(@) THEN @.had ELSE TRUE)
                             ELSE @]
    /\ UNCHANGED <<build, heap>>

-----------------------------------------------------------------------------
(* Specifications *)

\* the scopes callers pass: without a room, and in one of two rooms
Scopes ==
    { Object({<<"inventory", "bag">>}),
      Object({<<"room", "room-1">>}),
      Object({<<"room", "room-2">>, <<"inventory", "bag">>}) }

\* parse(input) and parse(input, { scope })
ParseOptions == {Null} \cup {[scope |-> sc] : sc \in Scopes}

Init == TypeInit

\* The dispatcher and the noun phrases: one parser with the default
\* vocabulary, called without options.
Next ==
    \/ createParser(1, Null)
    \/ \E input \in Inputs : Parse(1, input, Null)
    \/ clearPronoun(1)

Spec == Init /\ [][Next]_vars

\* The pronoun tracker: one parser called with and without scopes, with
\* clearPronoun in between.
NextPronoun ==
    \/ createParser(1, Null)
    \/ \E input \in PronounInputs, options \in ParseOptions : Parse(1, input, options)
    \/ clearPronoun(1)

SpecPronoun == Init /\ [][NextPronoun]_vars

\* The vocabulary store: several parsers, created in every way, extended at
\* run time and probed for the words they know.
NextVocab ==
    \/ \E p \in ParserIds, o \in {Null} \cup VocabularyOptions : createParser(p, o)
    \/ \E p \in ParserIds, definition \in AddedVerbs : addVerb(p, definition)
    \/ \E p \in ParserIds, definition \in AddedDirections : addDirection(p, definition)
    \/ \E p \in ParserIds, input \in ProbeInputs : Parse(p, input, Null)

SpecVocab == Init /\ [][NextVocab]_vars

\* the partialMatch and minPartialLength options callers create parsers
\* with; the first is what createParser takes when they are left out
MatcherOptions ==
    { [partialMatch |-> TRUE, minPartialLength |-> 3],
      [partialMatch |-> FALSE, minPartialLength |-> 3],
      [partialMatch |-> TRUE, minPartialLength |-> 2] }

\* The matcher: one parser with the default vocabulary, created with or
\* without partial matching, extended at run time and called with first
\* words of every kind.
NextMatcher ==
    \/ \E o \in MatcherOptions :
           createParserWith(1, Null, o.partialMatch, o.minPartialLength)
    \/ \E definition \in MatcherVerbs : addVerb(1, definition)
    \/ \E definition \in MatcherDirections : addDirection(1, definition)
    \/ \E input \in MatcherInputs : Parse(1, input, Null)

SpecMatcher == Init /\ [][NextMatcher]_vars

\* tokenize(input), called on its own (function H of the bundle, which $
\* calls at index.js 286)
Tokenize(input) ==
    /\ last' = [op |-> "tokenize", input |-> input, tokens |-> tokenize(input)]
    /\ UNCHANGED <<build, heap, parsers, referred>>

\* Runs of white space: one or two characters, of ASCII and of the rest of
\* the Unicode class
WhitespaceRuns == {" ", "  ", "\t", NBSP, " " \o NBSP}

\* What stands between the runs of an input of the tokenizer: words, words
\* with punctuation, quoted strings (closed, empty, never closed, with an
\* escaped quote)
TokenizerPieces ==
    { <<"get", "lamp">>, <<"get", "\"\"">>, <<"take", "'x">>, <<"!", "go">>,
      <<"say", "\"Hi there\"">>, <<"Get", "the", "key.">>,
      <<"look,", "n", "'a\\'b'">>, <<"a\"b\"", "\\", "c">> }

\* pieces[first] run pieces[first + 1] run ... with the runs of rs
RECURSIVE Joined(_, _, _)
Joined(pieces, rs, first) ==
    IF first = Len(pieces) THEN pieces[first]
    ELSE pieces[first] \o rs[first] \o Joined(pieces, rs, first + 1)

\* Inputs of the specification of the tokenizer
TokenizerInputs ==
    UNION {{Text(Joined(pieces, rs, 1)) : rs \in [1..(Len(pieces) - 1) -> WhitespaceRuns]} : pieces \in TokenizerPieces}

\* The tokenizer: tokenize applied to inputs whose pieces are separated by
\* runs of white space of every kind.
NextTokenizer ==
    \E input \in TokenizerInputs : Tokenize(input)

SpecTokenizer == Init /\ [][NextTokenizer]_vars

-----------------------------------------------------------------------------
(* Vocabulary store: instance isolation and the built-in defaults *)

\* C1: the vocabulary of a parser is its own. Whatever way two parsers were
\* created (no vocabulary option, extend mode, replace mode, the same
\* options object or not), a call of addVerb or addDirection on one of them
\* leaves the verbs, directions, prepositions and articles the other one
\* recognises as they were.
C1_InstanceIsolation ==
    [][\A q \in ParserIds :
          (/\ last'.op \in {"addVerb", "addDirection"}
           /\ last'.parser # q
           /\ parsers[q] # Null)
          => vocabularyOf(heap', parsers', q) = vocabularyOf(heap, parsers, q)]_vars

\* C2: the built-in default vocabulary is never changed by addVerb or
\* addDirection on any parser, and a parser created with no vocabulary
\* option starts with exactly the built-in verbs, directions, prepositions
\* and articles.
C2_DefaultsNeverChange ==
    /\ heap[DefaultVerbs] = DEFAULT_VOCABULARY.verbs
    /\ heap[DefaultDirections] = DEFAULT_VOCABULARY.directions
    /\ (last.op = "createParser" /\ last.vocabulary = Null)
       => vocabularyOf(heap, parsers, last.parser) = DEFAULT_VOCABULARY

-----------------------------------------------------------------------------
(* Command dispatcher: the length limit and the result of a call *)

\* the five variants of a ParseResult, with the fields of each
IsParseResult(result) ==
    /\ result # Null
    /\ \/ result.type = "command" /\ DOMAIN result = {"type", "command"}
       \/ result.type = "ambiguous"
          /\ DOMAIN result = {"type", "candidates", "original", "role"}
       \/ result.type = "unknown_verb" /\ DOMAIN result = {"type", "verb"}
       \/ result.type = "unknown_noun" /\ DOMAIN result = {"type", "noun", "position"}
       \/ result.type = "parse_error" /\ DOMAIN result = {"type", "message", "position"}

\* C3: parse throws a validation error if and only if the input is longer
\* than 1,000,000 characters: an input of exactly 1,000,000 characters
\* returns a ParseResult and an input one character longer throws.
C3_LengthLimit ==
    last.op = "parse"
    => /\ Rejected(last.thrown) <=> InputLength(last.input) > 1000000
       /\ InputLength(last.input) = 1000000 => IsParseResult(last.result)
       /\ InputLength(last.input) > 1000000 => last.calls = <<>>

\* the resolver threw, returned something that is not a list, or returned
\* an empty list for this call of it
FailsToResolve(call) ==
    /\ call.kind = "resolver"
    /\ LET entities == resolver(call.noun, call.adjectives, call.scope)
       IN  \/ entities.kind \in {"throws", "null", "string"}
           \/ entities.kind = "array" /\ Len(entities.items) = 0

\* C4: when the resolver throws, returns a value that is not a list, or
\* returns an empty list, parse returns an UnknownNoun result carrying the
\* noun it asked for; no exception leaves parse.
C4_ResolverFailureIsUnknownNoun ==
    last.op = "parse"
    => \A i \in DOMAIN last.calls :
          FailsToResolve(last.calls[i])
          => /\ last.thrown = Null
             /\ last.result # Null
             /\ last.result.type = "unknown_noun"
             /\ last.result.noun = last.calls[i].noun

\* C5: for every input of at most 1,000,000 characters, parse returns
\* exactly one of the five ParseResult variants and throws nothing.
C5_TotalWithinLimit ==
    (last.op = "parse" /\ InputLength(last.input) <= 1000000)
    => /\ last.thrown = Null
       /\ IsParseResult(last.result)

-----------------------------------------------------------------------------
(* Pronoun tracker: the referent of "it" *)

\* the noun phrases of the call that read the pronoun "it"
ReadsIt(call)       == {i \in DOMAIN call.calls : call.calls[i].kind = "it"}
\* the subject phrase is the first noun phrase of a call
SubjectIsIt(call)   == call.calls # <<>> /\ call.calls[1].kind = "it"
\* the call failed for lack of a referent
IsNoReferentError(call) ==
    /\ call.thrown = Null
    /\ call.result.type = "parse_error"
    /\ call.result.message = NoReferentMessage
\* the scope of the call names a room other than the stored one
ChangesRoom(call)   == NamesOtherRoom(ScopeOf(call.options), call.before.lastScope)

\* C6: after a Command with a subject, with no call that names another room
\* and no clearPronoun since, a parse whose subject phrase is "it" does not
\* fail for lack of a referent, and the Command it returns has the subject
\* of the most recent such Command.
C6_ItDenotesLatestSubject ==
    (/\ last.op = "parse"
     /\ ~IsCleared(last.before.referred)
     /\ ~ChangesRoom(last)
     /\ SubjectIsIt(last))
    => /\ ~IsNoReferentError(last)
       /\ IsCommandWithSubject(last.result)
          => last.result.command.subject = last.before.referred

C8_OnlyRoomChangeClears ==
    (/\ last.op = "parse"
     /\ ~ChangesRoom(last))
    => /\ parsers[last.parser].lastReferent =
             IF IsCommandWithSubject(last.result)
             THEN last.result.command.subject
             ELSE last.before.lastReferent
       /\ (last.before.lastReferent # Null /\ ReadsIt(last) # {})
          => ~IsNoReferentError(last)

ResolvesOne(call) ==
    /\ call.kind = "resolver"
    /\ LET entities == resolver(call.noun, call.adjectives, call.scope)
       IN  entities.kind = "array" /\ Len(entities.items) = 1
           /\ entities.items[1] # Null
\* the EntityRef of that entity
EntityOf(call) ==
    [id |-> resolver(call.noun, call.adjectives, call.scope).items[1].id,
     noun |-> call.noun, adjectives |-> call.adjectives]

\* C10: whenever the resolver returns exactly one entity for the subject
\* phrase of a parse call, the referent after the call is that entity,
\* whatever the call returns.
C10_SubjectResolutionSetsReferent ==
    (/\ last.op = "parse"
     /\ last.calls # <<>>
     /\ ResolvesOne(last.calls[1]))
    => parsers[last.parser].lastReferent = EntityOf(last.calls[1])

-----------------------------------------------------------------------------
(* Pronoun tracker: "it" after the preposition *)

\* the call returned a Command with a subject and an object
IsCommandWithObject(result) ==
    IsCommandWithSubject(result) /\ "object" \in DOMAIN result.command
\* the object phrase, the second noun phrase of the call, is "it"
ObjectIsIt(call) == Len(call.calls) = 2 /\ call.calls[2].kind = "it"

\* C11: in a Command with a subject and an object whose object phrase is
\* "it", the object is the referent stored before the call, not the subject
\* resolved in that call, and after the call the referent is the subject of
\* the Command, never its object.
C11_ObjectItIsStoredReferent ==
    (/\ last.op = "parse"
     /\ IsCommandWithObject(last.result)
     /\ ObjectIsIt(last))
    => /\ last.before.lastReferent # Null
       /\ last.result.command.object = last.before.lastReferent
       /\ parsers[last.parser].lastReferent = last.result.command.subject

\* "put key in it" while the lamp was the referent: the object is the lamp
\* and the key is the referent afterwards
C11_Witness ==
    /\ last.op = "parse"
    /\ IsCommandWithObject(last.result)
    /\ ObjectIsIt(last)
    /\ last.calls[1].kind = "resolver"
    /\ last.result.command.object = last.before.lastReferent
    /\ last.result.command.subject # last.result.command.object
    /\ parsers[last.parser].lastReferent = last.result.command.subject

-----------------------------------------------------------------------------
(* Determinism of repeated calls *)

\* the call repeats the call just before it: same parser, input and options
\* (the resolver is the same pure function throughout)
IsRepeat(call) == call.op = "parse" /\ "result" \in DOMAIN call.previous
\* the call returned the same value, or threw the same exception, as the
\* call it repeats
SameOutcome(call) ==
    call.result = call.previous.result /\ call.thrown = call.previous.thrown
\* the call returned a Command whose object phrase was "it" and whose
\* subject was not the referent the pronoun stood for
MovedReferentPastIt(call) ==
    /\ IsCommandWithObject(call.result)
    /\ ObjectIsIt(call)
    /\ call.result.command.subject # call.result.command.object

\* C12 as claimed: two parse calls in a row on one parser with identical
\* input and options return equal results.
C12_RepeatedParseIsEqual ==
    IsRepeat(last) => SameOutcome(last)

\* C12 amended: two parse calls in a row on one parser with identical input
\* and options return equal results, unless the first returned a Command
\* whose object phrase is "it" and whose subject is another entity than its
\* object; then the second returns the same Command with the subject of the
\* first as its object.
C12_RepeatedParseIsEqualUnlessItMoved ==
    IsRepeat(last)
    => IF MovedReferentPastIt(last.previous)
       THEN /\ last.thrown = Null
            /\ last.result =
                 [last.previous.result EXCEPT
                    !.command.object = last.previous.result.command.subject]
            /\ ~SameOutcome(last)
       ELSE SameOutcome(last)

\* the same call twice with a stored referent and "it" as its subject: the
\* same Command both times
C12_Witness ==
    /\ IsRepeat(last)
    /\ SubjectIsIt(last)
    /\ IsCommandWithSubject(last.result)
    /\ last.before.lastReferent # Null
    /\ SameOutcome(last)

-----------------------------------------------------------------------------
(* Matcher: directions, verbs and additions at run time *)

\* the value of the first token of the call's input
FirstWord(call) == At(tokenize(call.input), 0).value
\* the input of the call has a first token
HasFirstWord(call) == call.op = "parse" /\ tokenize(call.input) # <<>>
\* the vocabulary the call matched against (parse leaves it unchanged)
VocabularyAt(call) == vocabularyOf(heap, parsers, call.parser)
\* the direction definitions with the word among their aliases, by index
DirectionsWith(vocabulary, word) ==
    {i \in 1..Len(vocabulary.directions) :
        includes(vocabulary.directions[i].aliases, word)}
\* the verb definitions with the word among their synonyms, by index
VerbsWith(vocabulary, word) ==
    {i \in 1..Len(vocabulary.verbs) : includes(vocabulary.verbs[i].synonyms, word)}
\* the call returned the bare-direction Command
IsGo(call, canonical) ==
    /\ call.thrown = Null
    /\ call.result = [type |-> "command",
                      command |-> [verb |-> "GO", direction |-> canonical,
                                   raw |-> call.input]]
\* what shows of a dispatch on a verb definition: a Command has its
\* canonical name; with pattern none the call returns the Command of verb
\* and raw at once; a lone word of a verb with a subject is refused by the
\* verb's name
DispatchedAs(call, verb) ==
    /\ call.thrown = Null
    /\ call.result.type # "unknown_verb"
    /\ call.result.type = "command" => call.result.command.verb = verb.canonical
    /\ verb.pattern = "none"
       => call.result = [type |-> "command",
                         command |-> [verb |-> verb.canonical, raw |-> call.input]]
    /\ (verb.pattern = "subject" /\ Len(tokenize(call.input)) = 1)
       => call.result = ParseErrorResult(
                            "Expected object after " \o Quote(verb.canonical),
                            At(tokenize(call.input), 0).end)
    /\ (verb.pattern = "subject" /\ call.result.type = "command")
       => "subject" \in DOMAIN call.result.command
\* the call is the first parse after an addVerb or addDirection on its parser
IsFirstAfter(call, op) ==
    /\ HasFirstWord(call)
    /\ "definition" \in DOMAIN call.previous
    /\ call.previous.op = op
\* the first word is a synonym of the verb just added, no direction alias
\* and no synonym of an earlier verb
IsNewVerbWord(call) ==
    /\ IsFirstAfter(call, "addVerb")
    /\ includes(call.previous.definition.synonyms, FirstWord(call))
    /\ DirectionsWith(VocabularyAt(call), FirstWord(call)) = {}
    /\ \A i \in VerbsWith(VocabularyAt(call), FirstWord(call)) :
          VocabularyAt(call).verbs[i] = call.previous.definition
\* the first word is an alias of the direction just added
IsAddedAlias(call) ==
    /\ IsFirstAfter(call, "addDirection")
    /\ includes(call.previous.definition.aliases, FirstWord(call))
\* and no alias of an earlier direction
IsNewAlias(call) ==
    /\ IsAddedAlias(call)
    /\ \A i \in DirectionsWith(VocabularyAt(call), FirstWord(call)) :
          VocabularyAt(call).directions[i] = call.previous.definition

\* C13 as claimed: in the parse call right after addVerb(def) or
\* addDirection(def), a first word that is an alias of def gives Command GO
\* with def's canonical name, and a first word that is a synonym of def,
\* no direction alias and no synonym of an earlier verb, is dispatched
\* with def's canonical name and pattern.
C13_AddedWordsAreKnownAtOnce ==
    /\ IsAddedAlias(last) => IsGo(last, last.previous.definition.canonical)
    /\ IsNewVerbWord(last) => DispatchedAs(last, last.previous.definition)

\* C13 amended: the same, for an added alias that is not an alias of an
\* earlier direction; an alias that is one gives Command GO with the
\* canonical name of the earliest direction that has it.
C13_NewWordsAreKnownAtOnce ==
    /\ IsNewAlias(last) => IsGo(last, last.previous.definition.canonical)
    /\ (IsAddedAlias(last) /\ ~IsNewAlias(last))
       => IsGo(last, VocabularyAt(last).directions[
                        FirstIndex(DirectionsWith(VocabularyAt(last),
                                                  FirstWord(last)))].canonical)
    /\ IsNewVerbWord(last) => DispatchedAs(last, last.previous.definition)

\* right after addDirection(LOOKOUT) the added alias "look", a synonym of
\* the verb LOOK too, is the Command GO LOOKOUT
C13_Witness ==
    /\ IsNewAlias(last)
    /\ VerbsWith(VocabularyAt(last), FirstWord(last)) # {}
    /\ IsGo(last, last.previous.definition.canonical)

\* the first direction, in array order, that has the word as an alias
FirstDirectionWith(vocabulary, word) ==
    vocabulary.directions[FirstIndex(DirectionsWith(vocabulary, word))]

\* C14: in every vocabulary state that addVerb and addDirection reach, a
\* first token whose value equals a direction alias gives Command GO with
\* the canonical name of the (first) direction that has the alias, and no
\* resolver call, also when the word is a verb synonym and whatever tokens
\* follow it.
C14_BareDirectionIsGo ==
    (/\ HasFirstWord(last)
     /\ DirectionsWith(VocabularyAt(last), FirstWord(last)) # {})
    => /\ IsGo(last, FirstDirectionWith(VocabularyAt(last), FirstWord(last)).canonical)
       /\ last.calls = <<>>
       /\ parsers[last.parser].lastReferent = last.before.lastReferent

\* "n lamp" with the verb NOD, synonym "n", added, or "look lamp" with the
\* direction LOOKOUT, alias "look", added: GO all the same
C14_Witness ==
    /\ HasFirstWord(last)
    /\ DirectionsWith(VocabularyAt(last), FirstWord(last)) # {}
    /\ VerbsWith(VocabularyAt(last), FirstWord(last)) # {}
    /\ Len(tokenize(last.input)) > 1
    /\ IsGo(last, FirstDirectionWith(VocabularyAt(last), FirstWord(last)).canonical)

\* the verb definitions with a synonym that starts with the word, by index
VerbsStartingWith(vocabulary, word) ==
    {i \in 1..Len(vocabulary.verbs) :
        \E k \in 1..Len(vocabulary.verbs[i].synonyms) :
            startsWith(vocabulary.verbs[i].synonyms[k], word)}
\* the parser of the call may match the word by prefix
MayMatchPartially(call) ==
    /\ parsers[call.parser].partialMatch
    /\ Len(FirstWord(call)) >= parsers[call.parser].minPartialLength

-----------------------------------------------------------------------------
(* Noun phrases: what the resolver's answer becomes *)

\* the resolver returned an array of entities for this call of it
ReturnsEntities(call) ==
    /\ call.kind = "resolver"
    /\ resolver(call.noun, call.adjectives, call.scope).kind = "array"
    /\ \A i \in DOMAIN resolver(call.noun, call.adjectives, call.scope).items :
          resolver(call.noun, call.adjectives, call.scope).items[i] # Null
\* the entities it returned
EntitiesOf(call) == resolver(call.noun, call.adjectives, call.scope).items
\* the k-th noun phrase of the call was resolved: the call went on to
\* another phrase, or ended with something other than a failure to resolve
PhraseResolved(call, k) ==
    \/ k < Len(call.calls)
    \/ /\ call.thrown = Null
       /\ call.result.type \notin {"unknown_noun", "ambiguous"}

IsAmbiguous(call) ==
    call.op = "parse" /\ call.thrown = Null /\ call.result.type = "ambiguous"
\* the canonical name of the verb of the call
VerbAt(call) ==
    findVerb(VocabularyAt(call), parsers[call.parser].partialMatch,
             parsers[call.parser].minPartialLength, FirstWord(call))

\* C17: an Ambiguous result has role "object" if and only if the ambiguous
\* noun phrase is the one after the preposition, the second phrase of the
\* call; an ambiguous subject phrase has role "subject".  This holds for
\* verbs of pattern subject_object and for verbs of pattern subject used
\* with a preposition and an object.
C17_AmbiguousRole ==
    IsAmbiguous(last)
    => /\ Len(last.calls) \in {1, 2}
       /\ last.result.role = IF Len(last.calls) = 2 THEN "object" ELSE "subject"
       /\ last.result.candidates = EntitiesOf(last.calls[Len(last.calls)])

\* "get lamp with ball": a verb of pattern subject, the phrase after the
\* preposition is ambiguous and the role is "object"
C17_Witness ==
    /\ IsAmbiguous(last)
    /\ Len(last.calls) = 2
    /\ VerbAt(last).pattern = "subject"
    /\ last.result.role = "object"

\* the call parses a subject phrase: its first word is a verb that takes a
\* subject, and a token follows it
HasSubjectPhrase(call) ==
    /\ HasFirstWord(call)
    /\ ~Rejected(call.thrown)
    /\ DirectionsWith(VocabularyAt(call), FirstWord(call)) = {}
    /\ VerbAt(call) # Null
    /\ VerbAt(call).pattern \in {"subject", "subject_object"}
    /\ Len(tokenize(call.input)) >= 2
\* the first token of the phrase at startIndex (0-based) that is no article
FirstNonArticle(call, startIndex) ==
    At(tokenize(call.input),
       skipArticles(VocabularyAt(call), tokenize(call.input), startIndex))
\* what the k-th noun phrase of the call, an "it", stood for
ItYields(call, k) ==
    IF call.before.lastReferent = Null
    THEN /\ k = Len(call.calls)
         /\ call.thrown = Null
         /\ call.result = ParseErrorResult(NoReferentMessage, call.calls[k].position)
    ELSE /\ (k = 1 /\ IsCommandWithSubject(call.result))
            => call.result.command.subject = call.before.lastReferent
         /\ (k = 2 /\ IsCommandWithObject(call.result))
            => call.result.command.object = call.before.lastReferent
         /\ PhraseResolved(call, k)

\* C18: a noun phrase whose first token after the articles is "it" never
\* reaches the resolver, with or without a stored referent: no resolver
\* call has "it" as the first word of its phrase, the subject phrase "it"
\* is recorded as a reading of the referent, and every such phrase yields
\* the stored referent or the no-referent ParseError at its position.
C18_ItNeverResolved ==
    last.op = "parse"
    => /\ \A k \in DOMAIN last.calls :
             IF last.calls[k].kind = "resolver"
             THEN Append(last.calls[k].adjectives, last.calls[k].noun)[1] # "it"
             ELSE ItYields(last, k)
       /\ (/\ HasSubjectPhrase(last)
           /\ FirstNonArticle(last, 1) # Null
           /\ FirstNonArticle(last, 1).value = "it")
          => /\ last.calls # <<>>
             /\ last.calls[1] = ReadReferent(FirstNonArticle(last, 1))

\* "get the it" on a parser with no referent: no resolver call, the
\* no-referent ParseError at the pronoun
C18_Witness ==
    /\ HasSubjectPhrase(last)
    /\ At(tokenize(last.input), 1).value # "it"
    /\ FirstNonArticle(last, 1).value = "it"
    /\ last.before.lastReferent = Null
    /\ last.calls = <<ReadReferent(FirstNonArticle(last, 1))>>
    /\ IsNoReferentError(last)

-----------------------------------------------------------------------------
(* Positions *)

\* the call returned an UnknownNoun result
IsUnknownNoun(call) ==
    call.op = "parse" /\ call.thrown = Null /\ call.result.type = "unknown_noun"
\* input.slice(position, position + length), in lower case as token values are
SliceAt(call, position, length) ==
    toLowerCase(slice(call.input.text, position, position + length))

\* C19: the position of every UnknownNoun result is where its noun is in
\* the input: the characters from position on spell the noun, also when
\* articles or adjectives come before it.
C19_PositionOfUnknownNoun ==
    IsUnknownNoun(last)
    => SliceAt(last, last.result.position, Len(last.result.noun)) = last.result.noun

\* the call returned a result that carries a position
HasPosition(call) ==
    /\ call.op = "parse"
    /\ call.thrown = Null
    /\ call.result.type \in {"unknown_noun", "parse_error"}

\* C20: the position of every UnknownNoun and ParseError result is within
\* the input: 0 <= position <= input.length.
C20_PositionWithinInput ==
    HasPosition(last)
    => /\ last.result.position >= 0
       /\ last.result.position <= InputLength(last.input)

\* "put lamp in": the target is missing at the very end of the input
C20_Witness ==
    /\ HasPosition(last)
    /\ InputLength(last.input) > 0
    /\ last.result.position = InputLength(last.input)

-----------------------------------------------------------------------------
(* Dispatcher: the shape of commands *)

\* the index (0-based) of the token after the noun phrase at startIndex
PhraseEnd(call, startIndex) ==
    IF /\ FirstNonArticle(call, startIndex) # Null
       /\ FirstNonArticle(call, startIndex).value = "it"
    THEN skipArticles(VocabularyAt(call), tokenize(call.input), startIndex) + 1
    ELSE collectWords(VocabularyAt(call), tokenize(call.input),
                      skipArticles(VocabularyAt(call), tokenize(call.input),
                                   startIndex), <<>>).index
\* the phrase at startIndex has no "it" and no word
PhraseIsEmpty(call, startIndex) ==
    \/ startIndex >= Len(tokenize(call.input))
    \/ /\ ~(/\ FirstNonArticle(call, startIndex) # Null
            /\ FirstNonArticle(call, startIndex).value = "it")
       /\ collectWords(VocabularyAt(call), tokenize(call.input),
                       skipArticles(VocabularyAt(call), tokenize(call.input),
                                    startIndex), <<>>).words = <<>>
\* the subject phrase of the call stood for one entity
SubjectResolved(call) ==
    /\ call.calls # <<>>
    /\ \/ call.calls[1].kind = "it" /\ call.before.lastReferent # Null
       \/ ResolvesOne(call.calls[1])
\* the call parses a subject phrase for a verb of pattern subject_object
IsSubjectObjectCall(call) ==
    HasSubjectPhrase(call) /\ VerbAt(call).pattern = "subject_object"
\* the call returned the ParseError with this message
IsParseError(call, message) ==
    /\ call.thrown = Null
    /\ call.result.type = "parse_error"
    /\ call.result.message = message

\* C21: for a verb of pattern subject_object a Command is returned only for
\* a resolved subject, then a preposition, then a resolved object phrase.
\* After a resolved subject: no further token is the ParseError "Expected
\* preposition and target", a token that is no preposition is the
\* ParseError 'Expected preposition, got "<word>"', and a preposition with
\* no noun phrase after it is a ParseError.
C21_SubjectObjectNeedsAll ==
    IsSubjectObjectCall(last)
    => /\ IsCommandWithSubject(last.result)
          => /\ SubjectResolved(last)
             /\ PhraseEnd(last, 1) < Len(tokenize(last.input))
             /\ isPreposition(VocabularyAt(last),
                              At(tokenize(last.input), PhraseEnd(last, 1)).value)
             /\ ~PhraseIsEmpty(last, PhraseEnd(last, 1) + 1)
             /\ Len(last.calls) = 2
             /\ IsCommandWithObject(last.result)
             /\ last.result.command.preposition =
                  At(tokenize(last.input), PhraseEnd(last, 1)).value
       /\ SubjectResolved(last)
          => IF PhraseEnd(last, 1) >= Len(tokenize(last.input))
             THEN IsParseError(last, "Expected preposition and target")
             ELSE IF ~isPreposition(VocabularyAt(last),
                                    At(tokenize(last.input), PhraseEnd(last, 1)).value)
             THEN IsParseError(last, "Expected preposition, got "
                      \o Quote(At(tokenize(last.input), PhraseEnd(last, 1)).value))
             ELSE PhraseIsEmpty(last, PhraseEnd(last, 1) + 1)
                  => /\ last.thrown = Null
                     /\ last.result.type = "parse_error"

\* "put it lamp" with a stored referent: the subject is resolved and the
\* next token is no preposition
C21_Witness ==
    /\ IsSubjectObjectCall(last)
    /\ SubjectResolved(last)
    /\ PhraseEnd(last, 1) < Len(tokenize(last.input))
    /\ IsParseError(last, "Expected preposition, got "
           \o Quote(At(tokenize(last.input), PhraseEnd(last, 1)).value))

-----------------------------------------------------------------------------
(* Noun phrases: the words that go to the resolver *)

\* the index (0-based) of the first token from startIndex on that is a
\* preposition or a direction word, the number of tokens if there is none
PhraseStop(call, startIndex) ==
    FirstIndex({i \in startIndex..Len(tokenize(call.input)) :
                   \/ i = Len(tokenize(call.input))
                   \/ isPreposition(VocabularyAt(call), At(tokenize(call.input), i).value)
                   \/ DirectionsWith(VocabularyAt(call),
                                     At(tokenize(call.input), i).value) # {}})
\* the indices of the tokens of the phrase that are no articles
WordIndices(call, startIndex) ==
    {i \in startIndex..(PhraseStop(call, startIndex) - 1) :
        ~isArticle(VocabularyAt(call), At(tokenize(call.input), i).value)}
\* the n-th (from 1) of these indices
RECURSIVE NthIndex(_, _)
NthIndex(indices, n) ==
    IF n = 1 THEN FirstIndex(indices)
    ELSE NthIndex(indices \ {FirstIndex(indices)}, n - 1)
\* the words of the phrase in their order
PhraseWords(call, startIndex) ==
    [n \in 1..Cardinality(WordIndices(call, startIndex)) |->
        At(tokenize(call.input), NthIndex(WordIndices(call, startIndex), n)).value]
\* the phrase at startIndex has a word and does not start with "it"
IsWordPhrase(call, startIndex) ==
    /\ PhraseWords(call, startIndex) # <<>>
    /\ PhraseWords(call, startIndex)[1] # "it"
\* the resolver call the words are due: the last as noun, the others as
\* adjectives, with the scope of the call or an empty one
ResolverCallFor(call, startIndex) ==
    CalledResolver(PhraseWords(call, startIndex)[Len(PhraseWords(call, startIndex))],
                   SubSeq(PhraseWords(call, startIndex), 1,
                          Len(PhraseWords(call, startIndex)) - 1),
                   IF ScopeOf(call.options) = Null THEN EmptyObject
                   ELSE ScopeOf(call.options))
\* the call parses an object phrase: its subject was resolved and a
\* preposition with a token after it follows
HasObjectPhrase(call) ==
    /\ HasSubjectPhrase(call)
    /\ SubjectResolved(call)
    /\ PhraseEnd(call, 1) + 1 < Len(tokenize(call.input))
    /\ isPreposition(VocabularyAt(call),
                     At(tokenize(call.input), PhraseEnd(call, 1)).value)

\* C22: for every noun phrase that does not start with "it" the resolver
\* is called with the last word of the phrase that is no article, up to
\* the first preposition, direction word or the end, as noun, and the
\* earlier such words in their order as adjectives; a resolved EntityRef
\* carries that noun and those adjectives.
C22_NounAndAdjectives ==
    /\ (HasSubjectPhrase(last) /\ IsWordPhrase(last, 1))
       => /\ last.calls # <<>>
          /\ last.calls[1] = ResolverCallFor(last, 1)
          /\ IsCommandWithSubject(last.result)
             => /\ last.result.command.subject.noun = last.calls[1].noun
                /\ last.result.command.subject.adjectives = last.calls[1].adjectives
    /\ (HasObjectPhrase(last) /\ IsWordPhrase(last, PhraseEnd(last, 1) + 1))
       => /\ Len(last.calls) = 2
          /\ last.calls[2] = ResolverCallFor(last, PhraseEnd(last, 1) + 1)
          /\ IsCommandWithObject(last.result)
             => /\ last.result.command.object.noun = last.calls[2].noun
                /\ last.result.command.object.adjectives = last.calls[2].adjectives

-----------------------------------------------------------------------------
(* Commands: fields and raw *)

\* the call returned a Command
IsCommand(call) ==
    call.op = "parse" /\ call.thrown = Null /\ call.result.type = "command"
\* the first word of the call is a direction alias
IsBareDirection(call) ==
    HasFirstWord(call) /\ DirectionsWith(VocabularyAt(call), FirstWord(call)) # {}
\* the fields of the Command of the call
FieldsOf(call) == DOMAIN call.result.command

\* C23: a Command has exactly the fields of its pattern.  Pattern none:
\* verb and raw.  A bare direction or a verb of pattern direction: verb,
\* raw and direction.  Pattern text: verb, raw and text.  Patterns subject
\* and subject_object: verb, raw and subject, and either both preposition
\* and object or neither.
C23_FieldsOfPattern ==
    IsCommand(last)
    => IF IsBareDirection(last)
       THEN FieldsOf(last) = {"verb", "raw", "direction"}
       ELSE CASE VerbAt(last).pattern = "none" ->
                   FieldsOf(last) = {"verb", "raw"}
              [] VerbAt(last).pattern = "direction" ->
                   FieldsOf(last) = {"verb", "raw", "direction"}
              [] VerbAt(last).pattern = "text" ->
                   FieldsOf(last) = {"verb", "raw", "text"}
              [] VerbAt(last).pattern \in {"subject", "subject_object"} ->
                   \/ FieldsOf(last) = {"verb", "raw", "subject"}
                   \/ FieldsOf(last) =
                        {"verb", "raw", "subject", "preposition", "object"}

\* "get lamp with key": a verb of pattern subject with preposition and
\* object, both present
C23_Witness ==
    /\ IsCommand(last)
    /\ ~IsBareDirection(last)
    /\ VerbAt(last).pattern = "subject"
    /\ FieldsOf(last) = {"verb", "raw", "subject", "preposition", "object"}

-----------------------------------------------------------------------------
(* C24: the options object and its scope *)

\* the k-th noun phrase of the call went to the resolver
IsResolverCall(call, k) == k <= Len(call.calls) /\ call.calls[k].kind = "resolver"

\* C24: parse leaves the options object it was given, and the scope inside
\* it, as they were passed, and every resolver call of the parse call gets
\* the caller's scope as it is (an empty scope when the call had none).
C24_ScopePassedThrough ==
    last.op = "parse" =>
        /\ last.optionsAfter = last.options
        /\ \A k \in 1..Len(last.calls) :
               IsResolverCall(last, k) =>
                   last.calls[k].scope = IF ScopeOf(last.options) = Null
                                         THEN EmptyObject
                                         ELSE ScopeOf(last.options)

\* a call whose scope names another room than the stored one called the
\* resolver
C24_Witness ==
    /\ last.op = "parse"
    /\ ChangesRoom(last)
    /\ IsResolverCall(last, 1)
    /\ last.calls[1].scope = ScopeOf(last.options)

-----------------------------------------------------------------------------
(* C25: command.raw *)

\* C25: the raw field of every Command is the input exactly as parse got
\* it, with its white space and its upper-case letters, whichever pattern
\* or shortcut built the Command.
C25_RawIsInput ==
    IsCommand(last) => last.result.command.raw = last.input

\* a Command for an input with white space around it and an upper-case
\* letter
C25_Witness ==
    /\ IsCommand(last)
    /\ trim(last.input.text) # last.input.text
    /\ toLowerCase(last.input.text) # last.input.text
    /\ last.result.command.raw = last.input

-----------------------------------------------------------------------------
(* C26, C27: the tokenizer *)

\* tokens.map(t => t.value)
Values(tokens) == [k \in 1..Len(tokens) |-> tokens[k].value]

\* every character of s is of /\s/, and there is one at least
IsWhitespaceRun(s) ==
    /\ s # ""
    /\ \A k \in 1..Len(s) : SubSeq(s, k, k) \in Whitespace

\* what the input of the call has between its tokens i and i + 1
Gap(call, i) == slice(call.input.text, call.tokens[i].end, call.tokens[i + 1].start)

\* the input of the call with run between its tokens i and i + 1
WithGap(call, i, run) ==
    Text(slice(call.input.text, 0, call.tokens[i].end) \o run
         \o slice(call.input.text, call.tokens[i + 1].start, Len(call.input.text)))

\* C26: when a run of white space stands between two tokens of an input,
\* any other run of white space in its place, of whatever positive length
\* and whatever characters of the Unicode class, gives tokens of the same
\* values; and no WORD token has white space in its value.
C26_WhitespaceRunsAreAlike ==
    last.op = "tokenize" =>
        /\ \A i \in 1..(Len(last.tokens) - 1) :
               IsWhitespaceRun(Gap(last, i)) =>
                   \A run \in WhitespaceRuns :
                       Values(tokenize(WithGap(last, i, run))) = Values(last.tokens)
        /\ \A k \in 1..Len(last.tokens) :
               last.tokens[k].type = "WORD" =>
                   \A c \in 1..Len(last.tokens[k].value) :
                       ~IsWhitespaceRun(SubSeq(last.tokens[k].value, c, c))


\* C27: the tokens of every input are in position order and do not overlap:
\* each has 0 <= start < end <= input.length, and each ends at or before
\* the start of the next.
C27_TokensInOrder ==
    last.op = "tokenize" =>
        /\ \A k \in 1..Len(last.tokens) :
               /\ 0 <= last.tokens[k].start
               /\ last.tokens[k].start < last.tokens[k].end
               /\ last.tokens[k].end <= InputLength(last.input)
        /\ \A k \in 1..(Len(last.tokens) - 1) :
               last.tokens[k].end <= last.tokens[k + 1].start

\* an input of three tokens, the second right after the first and the last
\* one ending with the input
C27_Witness ==
    /\ last.op = "tokenize"
    /\ Len(last.tokens) = 3
    /\ last.tokens[1].end = last.tokens[2].start
    /\ last.tokens[3].end = InputLength(last.input)

-----------------------------------------------------------------------------
(* C28: what changes the referent *)

\* C28: after a parse call the referent is the subject of the Command the
\* call returned; or, when it returned no Command with a subject, it is
\* empty if the call's scope named another room than the stored one and
\* what it was before the call otherwise.  A call of addVerb or
\* addDirection leaves the referent and the stored room of every parser as
\* they were.
C28_ReferentChanges ==
    /\ [](last.op = "parse" =>
            \/ /\ IsCommandWithSubject(last.result)
               /\ parsers[last.parser].lastReferent = last.result.command.subject
            \/ /\ ~IsCommandWithSubject(last.result)
               /\ ChangesRoom(last)
               /\ parsers[last.parser].lastReferent = Null
            \/ /\ ~IsCommandWithSubject(last.result)
               /\ ~ChangesRoom(last) \/ last.thrown # Null
               /\ parsers[last.parser].lastReferent = last.before.lastReferent)
    /\ [][last'.op \in {"addVerb", "addDirection"} =>
            \A p \in ParserIds :
                parsers[p] # Null =>
                    /\ parsers'[p].lastReferent = parsers[p].lastReferent
                    /\ parsers'[p].lastScope = parsers[p].lastScope]_vars

-----------------------------------------------------------------------------
(* C29: the resolver calls of one parse call *)

\* C29: a parse call deals with two noun phrases at most, so it calls the
\* resolver twice at most.  The first is the subject phrase, and there is
\* none for an empty input, an unknown verb, a bare direction or a verb of
\* pattern none, direction or text.  The second is the object phrase, and
\* there is none unless the subject phrase stood for one entity and a
\* preposition followed it: the first error ends the call.
C29_ResolverCalls ==
    last.op = "parse" =>
        /\ Len(last.calls) <= 2
        /\ Len(last.calls) >= 1 => HasSubjectPhrase(last)
        /\ IsResolverCall(last, 1)
           => /\ IsWordPhrase(last, 1)
              /\ last.calls[1] = ResolverCallFor(last, 1)
        /\ Len(last.calls) = 2 => HasObjectPhrase(last)
        /\ IsResolverCall(last, 2)
           => /\ IsWordPhrase(last, PhraseEnd(last, 1) + 1)
              /\ last.calls[2] = ResolverCallFor(last, PhraseEnd(last, 1) + 1)

\* "put ghost in lamp": the subject phrase is unknown, a preposition and a
\* phrase follow, and the resolver was called once
C29_Witness ==
    /\ IsSubjectObjectCall(last)
    /\ IsResolverCall(last, 1)
    /\ ~SubjectResolved(last)
    /\ PhraseEnd(last, 1) + 1 < Len(tokenize(last.input))
    /\ isPreposition(VocabularyAt(last), At(tokenize(last.input), PhraseEnd(last, 1)).value)
    /\ Len(last.calls) = 1

-----------------------------------------------------------------------------
(* C30: the rejected call *)

\* C30: a parse call rejected for the length of its input leaves the
\* parser as it was: the stored referent and the stored room after the
\* throw are those before the call, also when the scope of the call names
\* another room.
C30_RejectedCallLeavesState ==
    (last.op = "parse" /\ Rejected(last.thrown)) =>
        /\ parsers[last.parser].lastReferent = last.before.lastReferent
        /\ parsers[last.parser].lastScope = last.before.lastScope

\* a rejected call whose scope names another room than the stored one,
\* with a referent stored
C30_Witness ==
    /\ (last.op = "parse" /\ Rejected(last.thrown))
    /\ ChangesRoom(last)
    /\ last.before.lastReferent # Null
    /\ parsers[last.parser].lastReferent = last.before.lastReferent

====
